---- MODULE Spec2Model ----
(***************************************************************************)
(* Deployment orchestration of ocs-ci: Deployment.deploy_cluster and the   *)
(* operations it drives (deploy_ocp, post_ocp_deploy, deploy_ocs,          *)
(* deploy_ocs_via_operator, subscribe_ocs, deploy_with_external_mode),     *)
(* modelled from src/ocs_ci/deployment/deployment.py; its teardown         *)
(* (destroy_cluster, TeardownSpec); and the waiting and retrying helpers   *)
(* of src/tests/helpers.py (HelperSpec).                                   *)
(*                                                                         *)
(* One action is one statement group of the code that ends in a call to an *)
(* external collaborator (oc client, ceph tools, log collection).  Such a  *)
(* call either returns or raises; both outcomes are explored.  Every call  *)
(* is appended to the history sequence "calls".                            *)
(***************************************************************************)
EXTENDS Integers, Sequences, FiniteSets, TLC

VARIABLES
    cfg,                      \* config.ENV_DATA / DEPLOYMENT / REPORTING / EXTERNAL_MODE and class attributes
    pc,                       \* position of the single orchestration thread
    calls,                    \* history: calls issued to external collaborators, in order
    caught,                   \* exception bound by the active "except" clause of deploy_cluster
    dc_result,                \* how deploy_cluster / destroy_cluster ended: "running", "returned", "raised"
    raised,                   \* the exception that left deploy_cluster / destroy_cluster
    ocs_result,               \* how deploy_ocs ended: "none", "running", "returned", "raised"
    ocs_exc,                  \* the exception that left deploy_ocs
    is_ocp_deployment_failed, \* config.RUN["is_ocp_deployment_failed"]
    DEFAULT_STORAGECLASS,     \* self.DEFAULT_STORAGECLASS
    worker_count,             \* label_and_taint_nodes: len(worker_nodes)
    tries_left,               \* retry(): remaining attempts of the wrapped call in progress
    cluster_data,             \* the storage-cluster document handed to "oc create"
    csv_phase,                \* phase of the operator CSV as last observed by the sequencer
    err,                      \* deploy_ocs: err = str(ex) of the failed first health check
    health,                   \* outcome of the latest ceph_health_check call: "none", "ok", "failed"
    ceph_cluster,             \* CephCluster resources in the namespace when deploy_ocs probes it
    fn,                       \* tests/helpers.py: the helper function being run ("none" when none is)
    args,                     \* its arguments
    hpc,                      \* position inside the helper
    trace,                    \* calls the helper made to its collaborators, in order
    samples,                  \* counts of the samples the helper's TimeoutSampler loop has seen
    attempts,                 \* outcome of each invocation retry made of the wrapped callable
    threads,                  \* the threads or executor futures the helper started, in order
    result,                   \* how the helper ended: kind "running", "returned" (value) or "raised" (exc)
    documents                 \* the storage-cluster documents this process has assembled and submitted, in order

vars == <<cfg, pc, calls, caught, dc_result, raised, ocs_result, ocs_exc,
          is_ocp_deployment_failed, DEFAULT_STORAGECLASS, worker_count,
          tries_left, cluster_data, csv_phase, err, health, ceph_cluster,
          fn, args, hpc, trace, samples, attempts, threads, result, documents>>

\* state of the helper functions of tests/helpers.py
helper_vars == <<fn, args, hpc, trace, samples, attempts, threads, result>>

\* state of the deployment
deployment_vars ==
    <<cfg, pc, calls, caught, dc_result, raised, ocs_result, ocs_exc,
      is_ocp_deployment_failed, DEFAULT_STORAGECLASS, worker_count,
      tries_left, cluster_data, csv_phase, err, health, ceph_cluster, documents>>

BOOL == {TRUE, FALSE}

----------------------------------------------------------------------------
(* Bounds *)

\* OCS / OCP versions explored are 4.4 .. 4.MaxMinor
MaxMinor == 7
\* worker nodes a cluster may report
MaxWorkers == 4
\* config.ENV_DATA["number_of_storage_nodes"] (IBM Power device sets)
NumberOfStorageNodes == 3

----------------------------------------------------------------------------
(* Exceptions *)

NoExc == [type |-> "none", at |-> "none", msg |-> <<>>]

\* an exception object: its class, the call that raised it, its text (a
\* sequence of fragments, so that "substring in str(ex)" can be evaluated)
Exc(type, at) == [type |-> type, at |-> at, msg |-> <<"error">>]
ExcMsg(type, at, msg) == [type |-> type, at |-> at, msg |-> msg]

----------------------------------------------------------------------------
(* Platform identifiers *)

AWS_PLATFORM == "aws"
VSPHERE_PLATFORM == "vsphere"
IBM_POWER_PLATFORM == "powervs"
BAREMETAL_PLATFORM == "baremetal"

Platforms == {AWS_PLATFORM, VSPHERE_PLATFORM, IBM_POWER_PLATFORM, BAREMETAL_PLATFORM}

----------------------------------------------------------------------------
(* Configuration *)

\* float(config.ENV_DATA["ocs_version"]) of the version string "4.<minor>",
\* scaled by 100: float("4.5") = 4.5 -> 450, float("4.10") = 4.1 -> 410
VersionFloat(minor) == IF minor < 10 THEN 400 + 10 * minor ELSE 400 + minor

Minors == 4..MaxMinor

\* the configuration every profile starts from
DefaultCfg ==
    [ platform                          |-> AWS_PLATFORM,
      skip_ocp_deployment               |-> TRUE,
      skip_ocs_deployment               |-> FALSE,
      gather_on_deploy_failure          |-> FALSE,
      collect_logs_on_success_run       |-> FALSE,
      external_mode                     |-> FALSE,
      external_cluster_details          |-> TRUE,
      ui_deployment                     |-> FALSE,
      live_deployment                   |-> TRUE,
      stage                             |-> FALSE,
      stage_rh_osbs                     |-> FALSE,
      subscription_plan_approval        |-> "None",
      csv_change                        |-> FALSE,
      local_storage                     |-> FALSE,
      lso_type                          |-> "None",
      CUSTOM_STORAGE_CLASS_PATH         |-> FALSE,
      DEFAULT_STORAGECLASS              |-> "gp2",
      encryption_at_rest                |-> FALSE,
      ocs_version                       |-> 6,
      ocp_version                       |-> 6,
      allow_lower_instance_requirements |-> FALSE,
      host_network                      |-> FALSE,
      device_size                       |-> "None",
      infra_nodes                       |-> FALSE,
      infra_replicas                    |-> FALSE,
      monitoring_enabled                |-> FALSE,
      persistent_monitoring             |-> FALSE,
      telemeter_server_url              |-> FALSE,
      ocs_operator_nodes_to_label       |-> 3,
      ocs_operator_nodes_to_taint       |-> 0 ]

Approvals == {"None", "Automatic", "Manual"}

\* deploy_cluster: the skip and reporting flags, both deployment modes
LifecycleConfigs ==
    { [DefaultCfg EXCEPT !.skip_ocp_deployment = a, !.skip_ocs_deployment = b,
                         !.gather_on_deploy_failure = c,
                         !.collect_logs_on_success_run = d,
                         !.external_mode = e, !.external_cluster_details = f] :
        a \in BOOL, b \in BOOL, c \in BOOL, d \in BOOL, e \in BOOL, f \in BOOL }

\* operator installation: mode, source and approval
OperatorConfigs ==
    { [DefaultCfg EXCEPT !.external_mode = a, !.ui_deployment = b,
                         !.live_deployment = c, !.stage = d,
                         !.subscription_plan_approval = e,
                         !.CUSTOM_STORAGE_CLASS_PATH = f, !.csv_change = g,
                         !.gather_on_deploy_failure = h] :
        a \in BOOL, b \in BOOL, c \in BOOL, d \in BOOL, e \in Approvals,
        f \in BOOL, g \in BOOL, h \in BOOL }
    \cup
    { [DefaultCfg EXCEPT !.live_deployment = FALSE, !.stage_rh_osbs = TRUE,
                         !.external_mode = a, !.ui_deployment = b] :
        a \in BOOL, b \in BOOL }

\* encryption at rest across versions, platforms and modes
EncryptionConfigs ==
    { [DefaultCfg EXCEPT !.encryption_at_rest = a, !.ocs_version = b,
                         !.platform = c, !.ui_deployment = d,
                         !.external_mode = e, !.local_storage = f,
                         !.subscription_plan_approval = g] :
        a \in BOOL, b \in Minors, c \in Platforms, d \in BOOL, e \in BOOL,
        f \in {FALSE}, g \in {"None", "Manual"} }

\* node labelling and tainting
NodeConfigs ==
    { [DefaultCfg EXCEPT !.ocs_operator_nodes_to_label = a,
                         !.ocs_operator_nodes_to_taint = b,
                         !.infra_nodes = c, !.infra_replicas = d] :
        a \in 0..MaxWorkers, b \in 0..MaxWorkers, c \in BOOL, d \in BOOL }

\* health convergence: monitoring, platform, default storage class
ConvergenceConfigs ==
    { [DefaultCfg EXCEPT !.platform = a, !.monitoring_enabled = b,
                         !.persistent_monitoring = c, !.telemeter_server_url = d,
                         !.DEFAULT_STORAGECLASS = e, !.gather_on_deploy_failure = f,
                         !.collect_logs_on_success_run = g] :
        a \in Platforms, b \in BOOL, c \in BOOL, d \in BOOL,
        e \in {"None", "gp2"}, f \in BOOL, g \in BOOL }

\* local storage operator deployments
LocalStorageConfigs ==
    { [DefaultCfg EXCEPT !.local_storage = TRUE, !.platform = a,
                         !.ocs_version = c, !.ocp_version = d,
                         !.allow_lower_instance_requirements = e] :
        a \in Platforms, c \in Minors, d \in {5, 6}, e \in BOOL }
    \cup
    { [DefaultCfg EXCEPT !.local_storage = TRUE, !.platform = VSPHERE_PLATFORM,
                         !.lso_type = b] :
        b \in {"RDM", "VMDK", "VMDirectPath"} }

Configs ==
    LifecycleConfigs \cup OperatorConfigs \cup EncryptionConfigs
        \cup NodeConfigs \cup ConvergenceConfigs \cup LocalStorageConfigs

----------------------------------------------------------------------------
(* Control transfer *)

Call(name) == calls' = Append(calls, name)

Goto(label) == pc' = label /\ UNCHANGED <<caught, ocs_result, ocs_exc>>

\* an exception raised inside "try: deploy_ocp(); post_ocp_deploy()" (lines 125-128)
RaiseInOcp(e) ==
    /\ pc' = "dc_ocp_except"
    /\ caught' = e
    /\ UNCHANGED <<ocs_result, ocs_exc>>

\* an exception leaving deploy_ocs, caught by "except Exception" (line 140)
RaiseInOcs(e) ==
    /\ pc' = "dc_ocs_except"
    /\ caught' = e
    /\ ocs_result' = "raised"
    /\ ocs_exc' = e

\* deploy_ocs returns to deploy_cluster (line 138)
ReturnFromOcs ==
    /\ pc' = "dc_ocs_returned"
    /\ ocs_result' = "returned"
    /\ UNCHANGED <<caught, ocs_exc>>

\* deploy_cluster ends
Finish(how, e) ==
    /\ pc' = "done"
    /\ dc_result' = how
    /\ raised' = e

\* state no step of deploy_cluster's own frame touches
ocs_locals == <<DEFAULT_STORAGECLASS, worker_count, tries_left, cluster_data, csv_phase, err, health>>

----------------------------------------------------------------------------
(* Deployment.deploy_cluster *)

\* no helper of tests/helpers.py is running
NoHelper ==
    /\ fn = "none"
    /\ args = <<>>
    /\ hpc = "none"
    /\ trace = <<>>
    /\ samples = <<>>
    /\ attempts = <<>>
    /\ threads = <<>>
    /\ result = [kind |-> "none", value |-> "None", exc |-> [type |-> "none", args |-> <<>>]]

Init ==
    /\ NoHelper
    /\ cfg \in Configs
    /\ pc = "dc_start"
    /\ calls = <<>>
    /\ caught = NoExc
    /\ dc_result = "running"
    /\ raised = NoExc
    /\ ocs_result = "none"
    /\ ocs_exc = NoExc
    /\ is_ocp_deployment_failed = FALSE
    /\ DEFAULT_STORAGECLASS = cfg.DEFAULT_STORAGECLASS
    /\ worker_count = 0
    /\ tries_left = 0
    /\ cluster_data = "None"
    /\ csv_phase = "none"
    /\ err = <<>>
    /\ health = "none"
    /\ ceph_cluster \in {"exists", "empty", "no-crd"}
    /\ documents = <<>>

\* line 121: if not config.ENV_DATA["skip_ocp_deployment"]
deploy_cluster ==
    /\ pc = "dc_start"
    /\ IF ~cfg.skip_ocp_deployment
          THEN Goto("dc_is_cluster_running")
          ELSE Goto("dc_ocs_phase")
    /\ UNCHANGED <<cfg, ceph_cluster, calls, dc_result, raised, is_ocp_deployment_failed>>
    /\ UNCHANGED ocs_locals

\* line 122: if is_cluster_running(self.cluster_path)
is_cluster_running ==
    /\ pc = "dc_is_cluster_running"
    /\ Call("is_cluster_running")
    /\ \/ Goto("dc_ocs_phase")           \* already running: installation skipped
       \/ Goto("deploy_prereq")          \* line 126: self.deploy_ocp(log_cli_level)
    /\ UNCHANGED <<cfg, ceph_cluster, dc_result, raised, is_ocp_deployment_failed>>
    /\ UNCHANGED ocs_locals

\* a call made inside the platform phase: returns, or raises into line 128
OcpStep(label, name, next) ==
    /\ pc = label
    /\ Call(name)
    /\ \/ Goto(next)
       \/ RaiseInOcp(Exc("CommandFailed", name))
    /\ UNCHANGED <<cfg, ceph_cluster, dc_result, raised, is_ocp_deployment_failed>>
    /\ UNCHANGED ocs_locals

\* deploy_ocp, lines 159-166
deploy_prereq == OcpStep("deploy_prereq", "ocp_deployment.deploy_prereq", "deploy")
deploy == OcpStep("deploy", "ocp_deployment.deploy", "get_cluster_id")
get_cluster_id == OcpStep("get_cluster_id", "oc get clusterversion", "set_selinux_permissions")

\* post_ocp_deploy, lines 172-174
set_selinux_permissions ==
    OcpStep("set_selinux_permissions", "set_selinux_permissions", "set_registry_to_managed_state")
set_registry_to_managed_state ==
    OcpStep("set_registry_to_managed_state", "set_registry_to_managed_state", "add_stage_cert")
add_stage_cert == OcpStep("add_stage_cert", "add_stage_cert", "dc_ocs_phase")

\* ocp_except with the failure swallowed: the storage phase starts anyway
ocp_except_continue ==
    /\ pc = "dc_ocp_except"
    /\ is_ocp_deployment_failed' = TRUE
    /\ pc' = "dc_ocs_phase"
    /\ UNCHANGED <<dc_result, raised>>
    /\ UNCHANGED <<cfg, ceph_cluster, calls, caught, ocs_result, ocs_exc>>
    /\ UNCHANGED ocs_locals

\* lines 128-133: except Exception / flag / (collect) / raise
ocp_except ==
    /\ pc = "dc_ocp_except"
    /\ is_ocp_deployment_failed' = TRUE
    /\ IF cfg.gather_on_deploy_failure
          THEN /\ pc' = "dc_ocp_collect"
               /\ UNCHANGED <<dc_result, raised>>
          ELSE Finish("raised", caught)
    /\ UNCHANGED <<cfg, ceph_cluster, calls, caught, ocs_result, ocs_exc>>
    /\ UNCHANGED ocs_locals

\* line 132-133: collect_ocs_logs("deployment", ocs=False); raise
ocp_collect ==
    /\ pc = "dc_ocp_collect"
    /\ Call("collect_ocs_logs(ocs=False)")
    /\ \/ Finish("raised", caught)
       \/ Finish("raised", Exc("CommandFailed", "collect_ocs_logs(ocs=False)"))
    /\ UNCHANGED <<cfg, ceph_cluster, caught, ocs_result, ocs_exc, is_ocp_deployment_failed>>
    /\ UNCHANGED ocs_locals

\* line 135: if not config.ENV_DATA["skip_ocs_deployment"] ... else (line 148)
ocs_phase ==
    /\ pc = "dc_ocs_phase"
    /\ IF ~cfg.skip_ocs_deployment
          THEN /\ pc' = "deploy_ocs"
               /\ ocs_result' = "running"
               /\ UNCHANGED <<dc_result, raised>>
          ELSE /\ Finish("returned", NoExc)
               /\ UNCHANGED ocs_result
    /\ UNCHANGED <<cfg, ceph_cluster, calls, caught, ocs_exc, is_ocp_deployment_failed>>
    /\ UNCHANGED ocs_locals

\* line 138: deploy_ocs returned; if collect_logs_on_success_run
ocs_returned ==
    /\ pc = "dc_ocs_returned"
    /\ IF cfg.collect_logs_on_success_run
          THEN /\ pc' = "dc_collect_success"
               /\ UNCHANGED <<dc_result, raised>>
          ELSE Finish("returned", NoExc)
    /\ UNCHANGED <<cfg, ceph_cluster, calls, caught, ocs_result, ocs_exc, is_ocp_deployment_failed>>
    /\ UNCHANGED ocs_locals

\* line 139: collect_ocs_logs(ocp=False, status_failure=False), inside the try
collect_on_success ==
    /\ pc = "dc_collect_success"
    /\ Call("collect_ocs_logs(ocp=False,status_failure=False)")
    /\ \/ /\ Finish("returned", NoExc)
          /\ UNCHANGED caught
       \/ /\ pc' = "dc_ocs_except"
          /\ caught' = Exc("CommandFailed", "collect_ocs_logs(ocp=False,status_failure=False)")
          /\ UNCHANGED <<dc_result, raised>>
    /\ UNCHANGED <<cfg, ceph_cluster, ocs_result, ocs_exc, is_ocp_deployment_failed>>
    /\ UNCHANGED ocs_locals

\* ocs_except that re-raises without collecting anything
ocs_except_no_collect ==
    /\ pc = "dc_ocs_except"
    /\ Finish("raised", caught)
    /\ UNCHANGED <<cfg, ceph_cluster, calls, caught, ocs_result, ocs_exc, is_ocp_deployment_failed>>
    /\ UNCHANGED ocs_locals

\* lines 140-147: except Exception / (collect twice) / raise
ocs_except ==
    /\ pc = "dc_ocs_except"
    /\ IF cfg.gather_on_deploy_failure
          THEN /\ pc' = "dc_ocs_collect_ocp"
               /\ UNCHANGED <<dc_result, raised>>
          ELSE Finish("raised", caught)
    /\ UNCHANGED <<cfg, ceph_cluster, calls, caught, ocs_result, ocs_exc, is_ocp_deployment_failed>>
    /\ UNCHANGED ocs_locals

\* line 145: collect_ocs_logs("deployment", ocs=False)
ocs_collect_ocp ==
    /\ pc = "dc_ocs_collect_ocp"
    /\ Call("collect_ocs_logs(ocs=False)")
    /\ \/ /\ pc' = "dc_ocs_collect_ocs"
          /\ UNCHANGED <<dc_result, raised>>
       \/ Finish("raised", Exc("CommandFailed", "collect_ocs_logs(ocs=False)"))
    /\ UNCHANGED <<cfg, ceph_cluster, caught, ocs_result, ocs_exc, is_ocp_deployment_failed>>
    /\ UNCHANGED ocs_locals

\* lines 146-147: collect_ocs_logs("deployment", ocp=False); raise
ocs_collect_ocs ==
    /\ pc = "dc_ocs_collect_ocs"
    /\ Call("collect_ocs_logs(ocp=False)")
    /\ \/ Finish("raised", caught)
       \/ Finish("raised", Exc("CommandFailed", "collect_ocs_logs(ocp=False)"))
    /\ UNCHANGED <<cfg, ceph_cluster, caught, ocs_result, ocs_exc, is_ocp_deployment_failed>>
    /\ UNCHANGED ocs_locals

----------------------------------------------------------------------------
(* Calls made while deploy_ocs is on the stack *)

dc_frame == <<cfg, ceph_cluster, dc_result, raised, is_ocp_deployment_failed>>

\* a call that returns, or raises an exception nothing below deploy_cluster handles
OcsStep(label, name, next) ==
    /\ pc = label
    /\ Call(name)
    /\ \/ Goto(next)
       \/ RaiseInOcs(Exc("CommandFailed", name))
    /\ UNCHANGED dc_frame
    /\ UNCHANGED ocs_locals

\* "assert pod.wait_for_resource(...)": the wait returns True, returns False
\* (the assert fails) or raises on its timeout
AssertWaitStep(label, name, next) ==
    /\ pc = label
    /\ Call(name)
    /\ \/ Goto(next)
       \/ RaiseInOcs(Exc("AssertionError", name))
       \/ RaiseInOcs(Exc("TimeoutExpiredError", name))
    /\ UNCHANGED dc_frame
    /\ UNCHANGED ocs_locals

\* a branch of the code that issues no call
OcsBranch(label, next) ==
    /\ pc = label
    /\ Goto(next)
    /\ UNCHANGED calls
    /\ UNCHANGED dc_frame
    /\ UNCHANGED ocs_locals

----------------------------------------------------------------------------
(* Deployment.deploy_ocs, lines 668-685 *)

\* deploy_ocs without the "already exists" early return
deploy_ocs_no_guard ==
    /\ pc = "deploy_ocs"
    /\ Call("oc get CephCluster")
    /\ IF cfg.external_mode
          THEN Goto("olm_create")
          ELSE Goto("deploy_ocs_via_operator")
    /\ UNCHANGED dc_frame
    /\ UNCHANGED ocs_locals

\* lines 673-683: existence probe, then the mode branch
deploy_ocs ==
    /\ pc = "deploy_ocs"
    /\ Call("oc get CephCluster")
    /\ IF ceph_cluster = "exists"
          THEN ReturnFromOcs             \* items[0] exists: "OCS cluster already exists"
          ELSE \* IndexError (no items) or CommandFailed (no such resource type)
               IF cfg.external_mode
                  THEN Goto("olm_create")     \* deploy_with_external_mode, line 616
                  ELSE Goto("deploy_ocs_via_operator")
    /\ UNCHANGED dc_frame
    /\ UNCHANGED ocs_locals

----------------------------------------------------------------------------
(* Deployment.deploy_ocs_via_operator, lines 369-400 *)

\* lines 372-383
deploy_ocs_via_operator ==
    OcsBranch("deploy_ocs_via_operator",
              IF cfg.local_storage THEN "sls_get_nodes" ELSE "via_operator_mode")

\* lines 375-383: UI deployment or operator deployment
via_operator_mode ==
    OcsBranch("via_operator_mode",
              IF cfg.ui_deployment
                 THEN (IF ~cfg.live_deployment THEN "create_ocs_operator_source"
                                               ELSE "deployment_with_ui")
                 ELSE "label_and_taint_nodes")

\* lines 378-380 and 596-605: run the console suite, skip the rest
deployment_with_ui ==
    OcsStep("deployment_with_ui", "run_openshift_console", "wait_mon")

\* olm_create creating the source whatever live_deployment says
olm_create_always_source ==
    OcsStep("olm_create", "oc create olm", "create_ocs_operator_source")

\* lines 385-387 (and 616-618): namespace and operator group
olm_create ==
    OcsStep("olm_create", "oc create olm",
            IF ~cfg.live_deployment THEN "create_ocs_operator_source" ELSE "subscribe_ocs")

----------------------------------------------------------------------------
(* Deployment.label_and_taint_nodes, lines 181-257 *)

Min(a, b) == IF a < b THEN a ELSE b

\* lines 181-217: fetch the nodes, count the workers, check there are enough
label_and_taint_nodes ==
    /\ pc = "label_and_taint_nodes"
    /\ Call("oc get node")
    /\ \/ \E n \in 0..MaxWorkers :
            IF n = 0
               THEN /\ RaiseInOcs(ExcMsg("UnavailableResourceException", "label_and_taint_nodes",
                                         <<"No worker node found!">>))
                    /\ UNCHANGED worker_count
               ELSE IF n < cfg.ocs_operator_nodes_to_label \/ n < cfg.ocs_operator_nodes_to_taint
                       THEN /\ RaiseInOcs(ExcMsg("UnavailableResourceException", "label_and_taint_nodes",
                                                 <<"Not enough worker nodes">>))
                            /\ UNCHANGED worker_count
                       ELSE /\ Goto("label_nodes")
                            /\ worker_count' = n
       \/ /\ RaiseInOcs(Exc("CommandFailed", "oc get node"))
          /\ UNCHANGED worker_count
    /\ UNCHANGED dc_frame
    /\ UNCHANGED <<DEFAULT_STORAGECLASS, tries_left, cluster_data, csv_phase, err, health>>

\* lines 220-246: label distributed_worker_nodes[:to_label]
label_nodes ==
    /\ pc = "label_nodes"
    /\ IF Min(cfg.ocs_operator_nodes_to_label, worker_count) > 0
          THEN /\ \/ /\ cfg.infra_nodes /\ ~cfg.infra_replicas
                     /\ \/ /\ calls' = calls \o <<"oc label nodes", "oc label nodes infra">>
                           /\ Goto("taint_nodes")
                           /\ UNCHANGED worker_count
                        \/ /\ calls' = calls \o <<"oc label nodes", "oc label nodes infra">>
                           /\ RaiseInOcs(Exc("CommandFailed", "oc label nodes infra"))
                           /\ worker_count' = 0
                  \/ /\ ~(cfg.infra_nodes /\ ~cfg.infra_replicas)
                     /\ Call("oc label nodes")
                     /\ Goto("taint_nodes")
                     /\ UNCHANGED worker_count
                  \/ /\ Call("oc label nodes")
                     /\ RaiseInOcs(Exc("CommandFailed", "oc label nodes"))
                     /\ worker_count' = 0
          ELSE /\ Goto("taint_nodes")
               /\ UNCHANGED <<calls, worker_count>>
    /\ UNCHANGED dc_frame
    /\ UNCHANGED <<DEFAULT_STORAGECLASS, tries_left, cluster_data, csv_phase, err, health>>

\* lines 248-257: taint distributed_worker_nodes[:to_taint], then back in
\* deploy_ocs_via_operator at line 384
taint_nodes ==
    /\ pc = "taint_nodes"
    /\ worker_count' = 0
    /\ IF Min(cfg.ocs_operator_nodes_to_taint, worker_count) > 0
          THEN /\ Call("oc adm taint nodes")
               /\ \/ Goto("olm_create")
                  \/ RaiseInOcs(Exc("CommandFailed", "oc adm taint nodes"))
          ELSE /\ Goto("olm_create")
               /\ UNCHANGED calls
    /\ UNCHANGED dc_frame
    /\ UNCHANGED <<DEFAULT_STORAGECLASS, tries_left, cluster_data, csv_phase, err, health>>

----------------------------------------------------------------------------
(* Deployment.create_ocs_operator_source, create_stage_operator_source,    *)
(* create_catalog_source                                                   *)

\* where the caller continues once the source is READY: line 378 (UI) or
\* line 388 / 619 (subscribe_ocs)
AfterSource ==
    IF cfg.ui_deployment /\ ~cfg.external_mode THEN "deployment_with_ui" ELSE "subscribe_ocs"

\* lines 315-319
create_ocs_operator_source ==
    OcsBranch("create_ocs_operator_source",
              IF cfg.stage THEN "stage_quay_login"
              ELSE IF cfg.stage_rh_osbs THEN "cs_patch_image_config"
              ELSE "create_catalog_source")

\* create_stage_operator_source, lines 263-309
stage_quay_login == OcsStep("stage_quay_login", "quay login", "stage_create_secret")
stage_create_secret ==
    OcsStep("stage_create_secret", "oc create operatorsource secret", "stage_create_source")
stage_create_source ==
    OcsStep("stage_create_source", "oc create operatorsource", "catalog_source_wait")

\* create_catalog_source, lines 863-877: stage_rh_osbs
cs_patch_image_config ==
    OcsStep("cs_patch_image_config", "oc patch image.config", "cs_apply_icsp")
cs_apply_icsp == OcsStep("cs_apply_icsp", "oc apply icsp", "cs_wait_mcp")
cs_wait_mcp ==
    OcsStep("cs_wait_mcp", "wait_for_machineconfigpool_status", "create_catalog_source")

\* create_catalog_source, lines 878-911
create_catalog_source ==
    OcsStep("create_catalog_source", "oc create catalogsource", "catalog_source_wait")

\* lines 309 and 917: catalog_source.wait_for_state("READY")
catalog_source_wait ==
    OcsStep("catalog_source_wait", "catalog_source.wait_for_state(READY)", AfterSource)

----------------------------------------------------------------------------
(* retry(exception_to_check, tries, delay)(f): at most "tries" attempts,   *)
(* re-raising the last matched exception; anything else propagates at once *)

\* attempts still allowed when the wrapped call is about to be made
TriesNow(tries) == IF tries_left = 0 THEN tries ELSE tries_left

\* the history records the wrapped call once, at its first attempt
RetryStep(label, name, tries, matched, unmatched, next) ==
    /\ pc = label
    /\ IF tries_left = 0 THEN Call(name) ELSE UNCHANGED calls
    /\ \/ /\ Goto(next)
          /\ tries_left' = 0
       \/ \E t \in matched :
            IF TriesNow(tries) > 1
               THEN /\ tries_left' = TriesNow(tries) - 1
                    /\ UNCHANGED <<pc, caught, ocs_result, ocs_exc>>
               ELSE /\ RaiseInOcs(Exc(t, name))
                    /\ tries_left' = 0
       \/ /\ RaiseInOcs(Exc(unmatched, name))
          /\ tries_left' = 0
    /\ UNCHANGED dc_frame
    /\ UNCHANGED <<DEFAULT_STORAGECLASS, worker_count, cluster_data, csv_phase, err, health>>

----------------------------------------------------------------------------
(* Deployment.subscribe_ocs, lines 326-363 *)

\* lines 326-333: package_manifest.wait_for_resource(timeout=300)
subscribe_ocs ==
    OcsStep("subscribe_ocs", "package_manifest.wait_for_resource(300)", "get_default_channel")

\* line 334
get_default_channel ==
    OcsStep("get_default_channel", "package_manifest.get_default_channel", "create_subscription")

\* create_subscription that never approves the install plan
create_subscription_no_approval ==
    OcsStep("create_subscription", "oc create subscription", "package_manifest_wait")

\* lines 335-363: build the manifest, create it, approve the install plan
\* when approval is manual
create_subscription ==
    OcsStep("create_subscription", "oc create subscription",
            IF cfg.subscription_plan_approval = "Manual"
               THEN "wait_for_install_plan_and_approve"
               ELSE "package_manifest_wait")

\* line 363
wait_for_install_plan_and_approve ==
    OcsStep("wait_for_install_plan_and_approve", "wait_for_install_plan_and_approve",
            "package_manifest_wait")

----------------------------------------------------------------------------
(* CSV readiness: lines 389-400 of deploy_ocs_via_operator, repeated as    *)
(* lines 620-631 of deploy_with_external_mode                              *)

\* line 396 / 627
package_manifest_wait ==
    OcsStep("package_manifest_wait", "package_manifest.wait_for_resource(300)", "get_current_csv")

\* line 398 / 629
get_current_csv ==
    OcsStep("get_current_csv", "package_manifest.get_current_csv", "csv_wait_for_phase")

\* where the caller continues once the CSV is in phase Succeeded
AfterCsv ==
    IF cfg.external_mode THEN "external_secret"
    ELSE IF cfg.csv_change THEN "modify_csv"
    ELSE "custom_storage_class"

\* csv_wait_for_phase whose failure is ignored
csv_wait_for_phase_swallow ==
    /\ pc = "csv_wait_for_phase"
    /\ Call("csv.wait_for_phase(Succeeded,720)")
    /\ \/ /\ Goto(AfterCsv)
          /\ csv_phase' = "Succeeded"
       \/ /\ Goto(AfterCsv)
          /\ UNCHANGED csv_phase
    /\ UNCHANGED dc_frame
    /\ UNCHANGED <<DEFAULT_STORAGECLASS, worker_count, tries_left, cluster_data, err, health>>

\* line 400 / 631: csv.wait_for_phase("Succeeded", timeout=720)
csv_wait_for_phase ==
    /\ pc = "csv_wait_for_phase"
    /\ Call("csv.wait_for_phase(Succeeded,720)")
    /\ \/ /\ Goto(AfterCsv)
          /\ csv_phase' = "Succeeded"
       \/ /\ RaiseInOcs(Exc("ResourceInUnexpectedState", "csv.wait_for_phase(Succeeded,720)"))
          /\ UNCHANGED csv_phase
    /\ UNCHANGED dc_frame
    /\ UNCHANGED <<DEFAULT_STORAGECLASS, worker_count, tries_left, cluster_data, err, health>>

\* lines 403-410
modify_csv == OcsStep("modify_csv", "modify_csv", "custom_storage_class")

----------------------------------------------------------------------------
(* Storage-cluster document, lines 420-577 *)

DEFAULT_STORAGECLASS_LSO == "localblock"

PvSizes == {"100Gi", "512Gi"}

IsPower(c) == c.platform = IBM_POWER_PLATFORM

\* lines 439 / 473: the request size comes from the PVs of the LSO class
NeedsPvSize(c) ==
    IF IsPower(c) THEN c.platform = "powervs" ELSE c.platform = BAREMETAL_PLATFORM

\* f"{device_size}Gi" with device_size defaulting to defaults.DEVICE_SIZE
DeviceSizeGi(c) == IF c.device_size = "None" THEN "DEVICE_SIZE Gi" ELSE c.device_size

TemplateResources == "template"
NoneResources == [Requests |-> "None", Limits |-> "None"]

\* lines 469-513: the single device set of every platform but IBM Power
DeviceSet(c, sc, pv) ==
    [ storage          |-> IF NeedsPvSize(c) THEN pv ELSE DeviceSizeGi(c),
      storageClassName |-> IF c.local_storage THEN DEFAULT_STORAGECLASS_LSO
                           ELSE IF sc # "None" THEN sc ELSE "template",
      portable         |-> IF c.local_storage THEN "False" ELSE "template",
      count            |-> IF c.local_storage /\ c.platform = AWS_PLATFORM THEN "2" ELSE "template",
      resources        |-> IF c.allow_lower_instance_requirements THEN "none_resources"
                           ELSE IF c.local_storage /\ VersionFloat(c.ocs_version) >= 450
                                   THEN "limits 2cpu 5Gi requests 1cpu 5Gi"
                           ELSE TemplateResources ]

\* lines 432-467: one device set per storage node on IBM Power
PowerDeviceSet(c, pv) ==
    [ storage          |-> IF NeedsPvSize(c) THEN pv ELSE DeviceSizeGi(c),
      storageClassName |-> DEFAULT_STORAGECLASS_LSO,
      portable         |-> IF c.local_storage THEN "False" ELSE "template",
      count            |-> "template",
      resources        |-> TemplateResources ]

\* lines 518-558: cluster_data["spec"]["resources"]
LowerResourceNames(c) ==
    {"mon", "mds", "rgw", "mgr", "noobaa-core", "noobaa-db"}
        \cup (IF VersionFloat(c.ocs_version) >= 450 THEN {"noobaa-endpoint"} ELSE {})

\* the AWS local-storage overrides of lines 535-552 tested before the
\* allow_lower_instance_requirements branch
SpecResources_overrides_first(c) ==
    IF IsPower(c) THEN "template"
    ELSE IF c.local_storage /\ c.platform = "aws"
       THEN [r \in {"mds"} \cup (IF VersionFloat(c.ocs_version) < 450
                                    THEN {"noobaa-core", "noobaa-db"} ELSE {}) |->
                IF r = "mds" THEN "limits 3cpu 8Gi requests 1cpu 8Gi"
                             ELSE "limits 2cpu 8Gi requests 1cpu 8Gi"]
    ELSE IF c.allow_lower_instance_requirements
       THEN [r \in LowerResourceNames(c) |->
                IF r = "noobaa-endpoint"
                   THEN "limits 1cpu 500Mi requests 1cpu 500Mi"
                   ELSE "none_resources"]
    ELSE "template"

SpecResources(c) ==
    IF IsPower(c) THEN "template"
    ELSE IF c.allow_lower_instance_requirements
       THEN [r \in LowerResourceNames(c) |->
                IF r = "noobaa-endpoint"
                   THEN "limits 1cpu 500Mi requests 1cpu 500Mi"     \* lines 534-538
                   ELSE "none_resources"]
    ELSE IF c.local_storage /\ c.platform = "aws"
       THEN [r \in {"mds"} \cup (IF VersionFloat(c.ocs_version) < 450
                                    THEN {"noobaa-core", "noobaa-db"} ELSE {}) |->
                IF r = "mds" THEN "limits 3cpu 8Gi requests 1cpu 8Gi"
                             ELSE "limits 2cpu 8Gi requests 1cpu 8Gi"]
    ELSE "template"

\* the document as it stands at line 578
StorageClusterSpec(c, sc, pv) ==
    [ storageDeviceSets   |-> IF IsPower(c)
                                 THEN [i \in 1..NumberOfStorageNodes |-> PowerDeviceSet(c, pv)]
                                 ELSE <<DeviceSet(c, sc, pv)>>,
      manageNodes         |-> IF c.local_storage THEN "False" ELSE "template",
      monDataDirHostPath  |-> IF c.local_storage THEN "/var/lib/rook" ELSE "template",
      local_devices       |-> ~IsPower(c) /\ c.local_storage
                              /\ VersionFloat(c.ocp_version) >= 460
                              /\ VersionFloat(c.ocs_version) >= 460,
      resources           |-> SpecResources(c),
      hostNetwork         |-> c.host_network,
      encryption          |-> c.encryption_at_rest ]

\* the version gate set one release too low
EncryptionUnsupported_below_45(c) == c.encryption_at_rest /\ VersionFloat(c.ocs_version) < 450

\* line 570: "if ocs_version < 4.6" under encryption_at_rest
EncryptionUnsupported(c) == c.encryption_at_rest /\ VersionFloat(c.ocs_version) < 460

----------------------------------------------------------------------------
(* deploy_ocs_via_operator, lines 412-589: custom storage class, document, *)
(* submission                                                              *)

AfterCustomStorageClass ==
    IF NeedsPvSize(cfg) THEN "get_pv_size" ELSE "create_storage_cluster"

\* the storage class is given a fresh name when the attribute already holds
\* the custom one
custom_storage_class_renamed ==
    /\ pc = "custom_storage_class"
    /\ IF cfg.CUSTOM_STORAGE_CLASS_PATH
          THEN /\ DEFAULT_STORAGECLASS' = IF DEFAULT_STORAGECLASS = "custom-sc"
                                             THEN "custom-sc-1" ELSE "custom-sc"
               /\ Call("oc create custom storageclass")
               /\ \/ Goto(AfterCustomStorageClass)
                  \/ RaiseInOcs(Exc("CommandFailed", "oc create custom storageclass"))
          ELSE /\ Goto(AfterCustomStorageClass)
               /\ UNCHANGED <<calls, DEFAULT_STORAGECLASS>>
    /\ UNCHANGED dc_frame
    /\ UNCHANGED <<worker_count, tries_left, cluster_data, csv_phase, err, health>>

\* lines 413-418
custom_storage_class ==
    /\ pc = "custom_storage_class"
    /\ IF cfg.CUSTOM_STORAGE_CLASS_PATH
          THEN /\ DEFAULT_STORAGECLASS' = "custom-sc"
               /\ Call("oc create custom storageclass")
               /\ \/ Goto(AfterCustomStorageClass)
                  \/ RaiseInOcs(Exc("CommandFailed", "oc create custom storageclass"))
          ELSE /\ Goto(AfterCustomStorageClass)
               /\ UNCHANGED <<calls, DEFAULT_STORAGECLASS>>
    /\ UNCHANGED dc_frame
    /\ UNCHANGED <<worker_count, tries_left, cluster_data, csv_phase, err, health>>

\* lines 440-446 / 474-480: helpers.get_pv_size, once per device set
get_pv_size ==
    /\ pc = "get_pv_size"
    /\ calls' = calls \o [i \in 1..(IF IsPower(cfg) THEN NumberOfStorageNodes ELSE 1) |-> "get_pv_size"]
    /\ \/ \E pv \in PvSizes :
            /\ cluster_data' = [storage |-> pv]
            /\ Goto("create_storage_cluster")
       \/ /\ RaiseInOcs(Exc("CommandFailed", "get_pv_size"))
          /\ UNCHANGED cluster_data
    /\ UNCHANGED dc_frame
    /\ UNCHANGED <<DEFAULT_STORAGECLASS, worker_count, tries_left, csv_phase, err, health>>

AfterStorageCluster == IF cfg.infra_nodes THEN "annotate_namespace" ELSE "wait_mon"

\* the error of lines 569-573, if any; on IBM Power ocs_version (line 492)
\* was never assigned, so line 570 fails on the unbound local
EncryptionCheck(c) ==
    IF ~c.encryption_at_rest THEN NoExc
    ELSE IF IsPower(c) THEN Exc("UnboundLocalError", "ocs_version")
    ELSE IF EncryptionUnsupported(c)
       THEN ExcMsg("UnsupportedFeatureError", "encryption_at_rest",
                   <<"Encryption at REST can be enabled only on OCS >= 4.6!">>)
    ELSE NoExc

\* lines 559-583: finish the document and submit it once
create_storage_cluster ==
    /\ pc = "create_storage_cluster"
    /\ IF EncryptionCheck(cfg) # NoExc
          THEN /\ RaiseInOcs(EncryptionCheck(cfg))
               /\ UNCHANGED <<calls, cluster_data>>
          ELSE /\ Call("oc create storagecluster")
               /\ cluster_data' = StorageClusterSpec(cfg, DEFAULT_STORAGECLASS,
                                     IF NeedsPvSize(cfg) THEN cluster_data.storage ELSE "None")
               /\ \/ Goto(AfterStorageCluster)
                  \/ RaiseInOcs(Exc("CommandFailed", "oc create storagecluster"))
    /\ UNCHANGED dc_frame
    /\ UNCHANGED <<DEFAULT_STORAGECLASS, worker_count, tries_left, csv_phase, err, health>>

\* lines 584-589
annotate_namespace == OcsStep("annotate_namespace", "oc annotate namespace", "wait_mon")

----------------------------------------------------------------------------
(* deploy_with_external_mode, lines 633-656, external_post_deploy_validation *)

\* external_secret without the check of the connection details
external_secret_unchecked ==
    OcsStep("external_secret", "oc create external secret", "external_storage_cluster")

\* lines 634-646
external_secret ==
    /\ pc = "external_secret"
    /\ IF ~cfg.external_cluster_details
          THEN /\ RaiseInOcs(ExcMsg("ExternalClusterDetailsException", "external_cluster_details",
                                    <<"No external cluster data found">>))
               /\ UNCHANGED calls
          ELSE /\ Call("oc create external secret")
               /\ \/ Goto("external_storage_cluster")
                  \/ RaiseInOcs(Exc("CommandFailed", "oc create external secret"))
    /\ UNCHANGED dc_frame
    /\ UNCHANGED ocs_locals

\* lines 648-654
external_storage_cluster ==
    /\ pc = "external_storage_cluster"
    /\ Call("oc create external storagecluster")
    /\ cluster_data' = "external"
    /\ \/ Goto("external_post_deploy_validation")
       \/ RaiseInOcs(Exc("CommandFailed", "oc create external storagecluster"))
    /\ UNCHANGED dc_frame
    /\ UNCHANGED <<DEFAULT_STORAGECLASS, worker_count, tries_left, csv_phase, err, health>>

\* lines 655, 665-666
external_post_deploy_validation ==
    OcsStep("external_post_deploy_validation", "cluster_health_check(300)",
            "external_setup_ceph_toolbox")

\* external mode continuing into the pod waits of operator mode
external_setup_ceph_toolbox_then_converge ==
    OcsStep("external_setup_ceph_toolbox", "setup_ceph_toolbox", "wait_mon")

\* line 656, then "return self.deploy_with_external_mode()" at line 683
external_setup_ceph_toolbox ==
    /\ pc = "external_setup_ceph_toolbox"
    /\ Call("setup_ceph_toolbox")
    /\ \/ ReturnFromOcs
       \/ RaiseInOcs(Exc("CommandFailed", "setup_ceph_toolbox"))
    /\ UNCHANGED dc_frame
    /\ UNCHANGED ocs_locals

----------------------------------------------------------------------------
(* deploy_ocs, lines 686-729: pods, volumes, budgets, toolbox, file system *)

wait_mon == AssertWaitStep("wait_mon", "wait_for_resource(app=rook-ceph-mon,3)", "wait_mgr")
wait_mgr == AssertWaitStep("wait_mgr", "wait_for_resource(app=rook-ceph-mgr)", "wait_osd")
wait_osd ==
    AssertWaitStep("wait_osd", "wait_for_resource(app=rook-ceph-osd,3)", "validate_cluster_on_pvc")
validate_cluster_on_pvc ==
    OcsStep("validate_cluster_on_pvc", "validate_cluster_on_pvc", "validate_pdb_creation")
validate_pdb_creation ==
    OcsStep("validate_pdb_creation", "validate_pdb_creation", "setup_ceph_toolbox")
setup_ceph_toolbox == OcsStep("setup_ceph_toolbox", "setup_ceph_toolbox", "wait_tools")
wait_tools ==
    AssertWaitStep("wait_tools", "wait_for_resource(app=rook-ceph-tools,1)", "get_cephfilesystem")

\* lines 722-723: cfs.get()["items"][0]
get_cephfilesystem ==
    /\ pc = "get_cephfilesystem"
    /\ Call("oc get CephFileSystem")
    /\ \/ Goto("validate_cephfilesystem")
       \/ RaiseInOcs(Exc("IndexError", "oc get CephFileSystem"))
       \/ RaiseInOcs(Exc("CommandFailed", "oc get CephFileSystem"))
    /\ UNCHANGED dc_frame
    /\ UNCHANGED ocs_locals

\* the branch of lines 732-776
AfterCephFilesystem ==
    IF cfg.monitoring_enabled /\ cfg.persistent_monitoring THEN "default_storage_class"
    ELSE IF cfg.monitoring_enabled /\ cfg.telemeter_server_url THEN "create_configmap_telemeter"
    ELSE "change_registry_backend_to_ocs"

\* lines 725-729: True and False are both only logged
validate_cephfilesystem ==
    OcsStep("validate_cephfilesystem", "validate_cephfilesystem", AfterCephFilesystem)

----------------------------------------------------------------------------
(* deploy_ocs, lines 731-779: monitoring and registry *)

default_storage_class ==
    OcsStep("default_storage_class", "default_storage_class(CephBlockPool)", "get_all_pods")
get_all_pods ==
    OcsStep("get_all_pods", "get_all_pods(monitoring)", "create_configmap_cluster_monitoring_pod")
\* lines 747-755: config map, then time.sleep(45)
create_configmap_cluster_monitoring_pod ==
    OcsStep("create_configmap_cluster_monitoring_pod",
            "create_configmap_cluster_monitoring_pod(sc)", "validate_pods_are_respinned")
\* lines 758-760
validate_pods_are_respinned ==
    RetryStep("validate_pods_are_respinned", "validate_pods_are_respinned_and_running_state", 3,
              {"CommandFailed", "ResourceWrongStatusException"}, "AssertionError",
              "validate_pvc_created_and_bound")
\* line 763
validate_pvc_created_and_bound ==
    OcsStep("validate_pvc_created_and_bound", "validate_pvc_created_and_bound_on_monitoring_pods",
            "validate_pvc_are_mounted")
\* the mount validation called once, outside retry
validate_pvc_are_mounted_once ==
    OcsStep("validate_pvc_are_mounted", "validate_pvc_are_mounted_on_monitoring_pods",
            "change_registry_backend_to_ocs")

\* lines 766-768
validate_pvc_are_mounted ==
    RetryStep("validate_pvc_are_mounted", "validate_pvc_are_mounted_on_monitoring_pods", 3,
              {"CommandFailed", "AssertionError"}, "TimeoutExpiredError",
              "change_registry_backend_to_ocs")
\* lines 774-776
create_configmap_telemeter ==
    OcsStep("create_configmap_telemeter", "create_configmap_cluster_monitoring_pod(telemeter)",
            "change_registry_backend_to_ocs")
\* line 779
change_registry_backend_to_ocs ==
    OcsStep("change_registry_backend_to_ocs", "change_registry_backend_to_ocs", "ceph_health_check")

----------------------------------------------------------------------------
(* deploy_ocs, lines 781-798: health check with clock-skew remediation,    *)
(* default storage class                                                   *)

\* texts ceph_health_check may fail with
HealthMessages ==
    { <<"HEALTH_ERR", "1 osds down">>,
      <<"HEALTH_WARN", "clock skew detected", "on mon.b">> }

\* "fragment in str(ex)"
Contains(msg, fragment) == \E i \in 1..Len(msg) : msg[i] = fragment

\* the except clause resyncing time whatever the platform
HealthExcept_any_platform(ex) ==
    /\ err' = ex.msg
    /\ health' = "failed"
    /\ IF Contains(ex.msg, "clock skew detected")
          THEN Goto("update_ntp_compute_nodes")
          ELSE Goto("patch_default_sc_to_non_default")

\* lines 786-795: the except clause of the first health check
HealthExcept(ex) ==
    /\ err' = ex.msg
    /\ health' = "failed"
    /\ IF Contains(ex.msg, "clock skew detected")
          THEN IF cfg.platform = VSPHERE_PLATFORM
                  THEN Goto("update_ntp_compute_nodes")
                  ELSE Goto("ceph_health_recheck")
          ELSE Goto("patch_default_sc_to_non_default")

\* lines 784-789: ceph_health_check(namespace, tries=30, delay=10)
ceph_health_check ==
    /\ pc = "ceph_health_check"
    /\ Call("ceph_health_check(tries=30)")
    /\ \/ /\ Goto("patch_default_sc_to_non_default")
          /\ health' = "ok"
          /\ UNCHANGED err
       \/ \E m \in HealthMessages :
            HealthExcept(ExcMsg("CephHealthException", "ceph_health_check(tries=30)", m))
       \/ /\ RaiseInOcs(Exc("CommandFailed", "ceph_health_check(tries=30)"))
          /\ health' = "failed"
          /\ UNCHANGED err
    /\ UNCHANGED dc_frame
    /\ UNCHANGED <<DEFAULT_STORAGECLASS, worker_count, tries_left, cluster_data, csv_phase>>

\* lines 793-794
update_ntp_compute_nodes ==
    OcsStep("update_ntp_compute_nodes", "update_ntp_compute_nodes", "ceph_health_recheck")

\* the recheck with its failure only logged, like the first check's
ceph_health_recheck_swallow ==
    /\ pc = "ceph_health_recheck"
    /\ Call("ceph_health_check(tries=60)")
    /\ \/ /\ Goto("patch_default_sc_to_non_default")
          /\ health' = "ok"
       \/ /\ Goto("patch_default_sc_to_non_default")
          /\ health' = "failed"
    /\ UNCHANGED dc_frame
    /\ UNCHANGED <<DEFAULT_STORAGECLASS, worker_count, tries_left, cluster_data, csv_phase, err>>

\* line 795: assert ceph_health_check(namespace, tries=60, delay=10), inside
\* the except clause: a CephHealthException or a failed assert leaves deploy_ocs
ceph_health_recheck ==
    /\ pc = "ceph_health_recheck"
    /\ Call("ceph_health_check(tries=60)")
    /\ \/ /\ Goto("patch_default_sc_to_non_default")
          /\ health' = "ok"
       \/ /\ \E m \in HealthMessages :
               RaiseInOcs(ExcMsg("CephHealthException", "ceph_health_check(tries=60)", m))
          /\ health' = "failed"
       \/ /\ RaiseInOcs(Exc("AssertionError", "ceph_health_check(tries=60)"))
          /\ health' = "failed"
    /\ UNCHANGED dc_frame
    /\ UNCHANGED <<DEFAULT_STORAGECLASS, worker_count, tries_left, cluster_data, csv_phase, err>>

\* the patch issued whether or not a default storage class is set
patch_default_sc_always ==
    /\ pc = "patch_default_sc_to_non_default"
    /\ Call("oc patch storageclass")
    /\ \/ ReturnFromOcs
       \/ RaiseInOcs(Exc("CommandFailed", "oc patch storageclass"))
    /\ UNCHANGED dc_frame
    /\ UNCHANGED ocs_locals

\* lines 835-847, called from line 798; deploy_ocs returns after it
patch_default_sc_to_non_default ==
    /\ pc = "patch_default_sc_to_non_default"
    /\ IF DEFAULT_STORAGECLASS = "None"
          THEN /\ ReturnFromOcs
               /\ UNCHANGED calls
          ELSE /\ Call("oc patch storageclass")
               /\ \/ ReturnFromOcs
                  \/ RaiseInOcs(Exc("CommandFailed", "oc patch storageclass"))
    /\ UNCHANGED dc_frame
    /\ UNCHANGED ocs_locals

----------------------------------------------------------------------------
(* setup_local_storage, lines 929-1130, and verify_pvs_created *)

\* attempts of @retry(AssertionError, 120, 10, 1) on verify_pvs_created
VERIFY_PVS_TRIES == 120

\* str >= "4.6" on the version string "4.<minor>": decided by the first
\* digit of the minor ("4.10" < "4.6")
VersionStrGE46(minor) == (IF minor < 10 THEN minor ELSE minor \div 10) >= 6

RDM == "RDM"
VMDK == "VMDK"
DIRECTPATH == "VMDirectPath"

\* lines 930-937
sls_get_nodes == OcsStep("sls_get_nodes", "get_nodes(worker)", "sls_label_nodes")
sls_label_nodes == OcsStep("sls_label_nodes", "oc label nodes", "sls_ocp_ga_version")

\* lines 939-942: is this OCP version GA?
sls_ocp_ga_version ==
    /\ pc = "sls_ocp_ga_version"
    /\ Call("get_ocp_ga_version")
    /\ \/ Goto("sls_create_optional_operators")
       \/ Goto("sls_create_lso")
       \/ RaiseInOcs(Exc("CommandFailed", "get_ocp_ga_version"))
    /\ UNCHANGED dc_frame
    /\ UNCHANGED ocs_locals

\* lines 943-965
sls_create_optional_operators ==
    OcsStep("sls_create_optional_operators", "oc create optional-operators", "sls_wait_mcp")
sls_wait_mcp == OcsStep("sls_wait_mcp", "wait_for_machineconfigpool_status", "sls_create_lso")

\* lines 967-1001
sls_create_lso == OcsStep("sls_create_lso", "oc create local-storage-operator", "sls_wait_lso")

AfterDisks ==
    IF VersionStrGE46(cfg.ocp_version) /\ VersionStrGE46(cfg.ocs_version)
       THEN "sls_create_lvd" ELSE "sls_get_device_paths"

\* lines 1003-1008
sls_wait_lso ==
    AssertWaitStep("sls_wait_lso", "wait_for_resource(name=local-storage-operator)",
                   IF cfg.platform = VSPHERE_PLATFORM /\ cfg.lso_type \in {RDM, VMDK, DIRECTPATH}
                      THEN "sls_vsphere_disks" ELSE AfterDisks)

\* lines 1013-1034
sls_vsphere_disks ==
    /\ pc = "sls_vsphere_disks"
    /\ IF cfg.lso_type = DIRECTPATH
          THEN /\ RaiseInOcs(Exc("NotImplementedError", "VMDirectPath"))
               /\ UNCHANGED calls
          ELSE /\ Call(IF cfg.lso_type = RDM THEN "add_rdm_disks" ELSE "attach_disk")
               /\ \/ Goto(AfterDisks)
                  \/ RaiseInOcs(Exc("CommandFailed", "vsphere disks"))
    /\ UNCHANGED dc_frame
    /\ UNCHANGED ocs_locals

\* lines 1036-1058
sls_create_lvd == OcsStep("sls_create_lvd", "oc create LocalVolumeDiscovery", "sls_create_lvs")
\* lines 1060-1096
sls_create_lvs == OcsStep("sls_create_lvs", "oc create LocalVolumeSet", "verify_pvs_created")
\* lines 1099, 1179-1212
sls_get_device_paths == OcsStep("sls_get_device_paths", "get_device_paths", "sls_create_lv")
\* lines 1101-1125
sls_create_lv == OcsStep("sls_create_lv", "oc create LocalVolume", "verify_pvs_created")

\* lines 1130, 1133-1166; then back in deploy_ocs_via_operator at line 375
verify_pvs_created ==
    RetryStep("verify_pvs_created", "oc get pv", VERIFY_PVS_TRIES,
              {"AssertionError"}, "CommandFailed", "via_operator_mode")

----------------------------------------------------------------------------
(* Specification *)

DeployClusterNext ==
    \/ deploy_cluster \/ is_cluster_running
    \/ deploy_prereq \/ deploy \/ get_cluster_id
    \/ set_selinux_permissions \/ set_registry_to_managed_state \/ add_stage_cert
    \/ ocp_except \/ ocp_collect
    \/ ocs_phase \/ ocs_returned \/ collect_on_success
    \/ ocs_except \/ ocs_collect_ocp \/ ocs_collect_ocs

OperatorNext ==
    \/ deploy_ocs \/ deploy_ocs_via_operator \/ via_operator_mode \/ deployment_with_ui
    \/ label_and_taint_nodes \/ label_nodes \/ taint_nodes
    \/ olm_create \/ create_ocs_operator_source
    \/ stage_quay_login \/ stage_create_secret \/ stage_create_source
    \/ cs_patch_image_config \/ cs_apply_icsp \/ cs_wait_mcp
    \/ create_catalog_source \/ catalog_source_wait
    \/ subscribe_ocs \/ get_default_channel \/ create_subscription
    \/ wait_for_install_plan_and_approve
    \/ package_manifest_wait \/ get_current_csv \/ csv_wait_for_phase \/ modify_csv
    \/ custom_storage_class \/ get_pv_size \/ create_storage_cluster \/ annotate_namespace
    \/ external_secret \/ external_storage_cluster
    \/ external_post_deploy_validation \/ external_setup_ceph_toolbox

ConvergenceNext ==
    \/ wait_mon \/ wait_mgr \/ wait_osd
    \/ validate_cluster_on_pvc \/ validate_pdb_creation \/ setup_ceph_toolbox \/ wait_tools
    \/ get_cephfilesystem \/ validate_cephfilesystem
    \/ default_storage_class \/ get_all_pods \/ create_configmap_cluster_monitoring_pod
    \/ validate_pods_are_respinned \/ validate_pvc_created_and_bound
    \/ validate_pvc_are_mounted \/ create_configmap_telemeter
    \/ change_registry_backend_to_ocs
    \/ ceph_health_check \/ update_ntp_compute_nodes \/ ceph_health_recheck
    \/ patch_default_sc_to_non_default

LocalStorageNext ==
    \/ sls_get_nodes \/ sls_label_nodes \/ sls_ocp_ga_version
    \/ sls_create_optional_operators \/ sls_wait_mcp \/ sls_create_lso \/ sls_wait_lso
    \/ sls_vsphere_disks \/ sls_create_lvd \/ sls_create_lvs
    \/ sls_get_device_paths \/ sls_create_lv \/ verify_pvs_created

Next ==
    /\ DeployClusterNext \/ OperatorNext \/ ConvergenceNext \/ LocalStorageNext
    /\ UNCHANGED helper_vars
    /\ UNCHANGED documents

Spec == Init /\ [][Next]_vars

----------------------------------------------------------------------------
(* tests/helpers.py: control transfer of a helper function *)

\* an exception object of a helper: its class and constructor arguments
HExc(type, a) == [type |-> type, args |-> a]
NoHExc == HExc("none", <<>>)

\* a call to a collaborator and what came back
HCall(name, outcome) == trace' = Append(trace, <<name, outcome>>)

HReturn(value) ==
    /\ hpc' = "done"
    /\ result' = [kind |-> "returned", value |-> value, exc |-> NoHExc]

HRaise(e) ==
    /\ hpc' = "done"
    /\ result' = [kind |-> "raised", value |-> "None", exc |-> e]

\* the deployment is not running while a helper is exercised
NoDeployment ==
    /\ cfg = DefaultCfg
    /\ pc = "idle"
    /\ calls = <<>>
    /\ caught = NoExc
    /\ dc_result = "none"
    /\ raised = NoExc
    /\ ocs_result = "none"
    /\ ocs_exc = NoExc
    /\ is_ocp_deployment_failed = FALSE
    /\ DEFAULT_STORAGECLASS = cfg.DEFAULT_STORAGECLASS
    /\ worker_count = 0
    /\ tries_left = 0
    /\ cluster_data = "None"
    /\ csv_phase = "none"
    /\ err = <<>>
    /\ health = "none"
    /\ ceph_cluster = "empty"
    /\ documents = <<>>

\* a helper starts: nothing called, nothing returned yet
HelperStart(name, a, label) ==
    /\ fn = name
    /\ args = a
    /\ hpc = label
    /\ trace = <<>>
    /\ samples = <<>>
    /\ attempts = <<>>
    /\ threads = <<>>
    /\ result = [kind |-> "running", value |-> "None", exc |-> NoHExc]

----------------------------------------------------------------------------
(* tests/helpers.py: wait_for_resource_state, lines 86-114 *)

DEFAULT_CLUSTERNAME == "ocs-storagecluster"
DEFAULT_STORAGECLASS_CEPHFS == "ocs-storagecluster-cephfs"
DEFAULT_STORAGECLASS_RBD == "ocs-storagecluster-ceph-rbd"
DEFAULT_STORAGECLASS_RGW == "ocs-storagecluster-ceph-rgw"

\* names of the resources waited for
ResourceNames ==
    { DEFAULT_STORAGECLASS_CEPHFS, DEFAULT_STORAGECLASS_RBD, DEFAULT_STORAGECLASS_RGW,
      DEFAULT_CLUSTERNAME, "pvc-test", "pod-test" }

\* states waited for, timeouts given
ResourceStates == {"Bound", "Running", "Available", "Released"}
Timeouts == {0, 60, 600}

\* what resource.describe() may print
Descriptions == {"Status: Pending", "Status: Lost", "Status: Bound"}

WaitForResourceStateArgs ==
    [name : ResourceNames, state : ResourceStates, timeout : Timeouts]

\* wait_for_resource_state waiting for every name alike
wait_for_resource_state_no_default ==
    /\ fn = "wait_for_resource_state" /\ hpc = "wait_for_resource_state"
    /\ hpc' = "wrs_wait"
    /\ UNCHANGED <<fn, args, trace, samples, attempts, result>>
    /\ UNCHANGED deployment_vars

\* lines 100-105: the two default storage classes are not waited for
wait_for_resource_state ==
    /\ fn = "wait_for_resource_state" /\ hpc = "wait_for_resource_state"
    /\ IF \/ args.name = DEFAULT_STORAGECLASS_CEPHFS
          \/ args.name = DEFAULT_STORAGECLASS_RBD
          THEN HReturn("None")
          ELSE hpc' = "wrs_wait" /\ UNCHANGED result
    /\ UNCHANGED <<fn, args, trace, samples, attempts>>
    /\ UNCHANGED deployment_vars

\* lines 106-109 and 114: resource.ocp.wait_for_resource(condition=state, ...)
wrs_wait ==
    /\ fn = "wait_for_resource_state" /\ hpc = "wrs_wait"
    /\ \/ /\ HCall("ocp.wait_for_resource", "True")
          /\ HReturn("None")
       \/ /\ HCall("ocp.wait_for_resource", "TimeoutExpiredError")
          /\ hpc' = "wrs_reload" /\ UNCHANGED result
       \/ /\ HCall("ocp.wait_for_resource", "CommandFailed")
          /\ HRaise(HExc("CommandFailed", <<"ocp.wait_for_resource">>))
    /\ UNCHANGED <<fn, args, samples, attempts>>
    /\ UNCHANGED deployment_vars

\* the except clause describing the resource as last loaded
wrs_reload_skipped ==
    /\ fn = "wait_for_resource_state" /\ hpc = "wrs_reload"
    /\ hpc' = "wrs_describe"
    /\ UNCHANGED <<fn, args, trace, samples, attempts, result>>
    /\ UNCHANGED deployment_vars

\* lines 110-112: except TimeoutExpiredError: resource.reload()
wrs_reload ==
    /\ fn = "wait_for_resource_state" /\ hpc = "wrs_reload"
    /\ \/ /\ HCall("reload", "None")
          /\ hpc' = "wrs_describe" /\ UNCHANGED result
       \/ /\ HCall("reload", "CommandFailed")
          /\ HRaise(HExc("CommandFailed", <<"reload">>))
    /\ UNCHANGED <<fn, args, samples, attempts>>
    /\ UNCHANGED deployment_vars

\* line 113: raise ResourceWrongStatusException(resource.name, resource.describe())
wrs_describe ==
    /\ fn = "wait_for_resource_state" /\ hpc = "wrs_describe"
    /\ \/ \E d \in Descriptions :
            /\ HCall("describe", d)
            /\ HRaise(HExc("ResourceWrongStatusException", <<args.name, d>>))
       \/ /\ HCall("describe", "CommandFailed")
          /\ HRaise(HExc("CommandFailed", <<"describe">>))
    /\ UNCHANGED <<fn, args, samples, attempts>>
    /\ UNCHANGED deployment_vars

WaitForResourceStateNext ==
    wait_for_resource_state \/ wrs_wait \/ wrs_reload \/ wrs_describe

----------------------------------------------------------------------------
(* tests/helpers.py: wait_for_resource_count_change, lines 1628-1666 *)

\* largest pod / PVC count a sample reports
MaxCount == 3
\* most samples TimeoutSampler yields before its timeout expires
MaxSamples == 3

WaitForResourceCountChangeArgs ==
    [ func_to_use : {"get_all_pods", "get_all_pvcs"}, previous_num : 0..MaxCount,
      change_type : {"increase", "decrease"}, min_difference : 0..MaxCount ]

\* the difference always taken as an increase
CountDiff_increase_only(change_type, current_num, previous_num) == current_num - previous_num

\* lines 1659-1662
CountDiff(change_type, current_num, previous_num) ==
    IF change_type = "increase" THEN current_num - previous_num
    ELSE previous_num - current_num

\* lines 1651-1666: one turn of "for sample in TimeoutSampler(...)": the
\* sampler yields the next sample, or its timeout has expired
wait_for_resource_count_change ==
    /\ fn = "wait_for_resource_count_change" /\ hpc = "wait_for_resource_count_change"
    /\ \/ \E current_num \in 0..MaxCount :
            /\ Len(samples) < MaxSamples
            /\ samples' = Append(samples, current_num)
            /\ HCall(args.func_to_use, "sample")
            /\ IF CountDiff(args.change_type, current_num, args.previous_num)
                      >= args.min_difference
                  THEN HReturn("True")
                  ELSE UNCHANGED <<hpc, result>>
       \/ /\ HCall("TimeoutSampler", "TimeoutExpiredError")
          /\ HReturn("False")               \* except TimeoutExpiredError: return False
          /\ UNCHANGED samples
    /\ UNCHANGED <<fn, args, attempts>>
    /\ UNCHANGED deployment_vars

----------------------------------------------------------------------------
(* retry(exception_to_check, tries, delay, backoff) around verify_pvs_created *)
(* (deployment.py, lines 1133-1166) and validate_pv_delete (tests/helpers.py, *)
(* lines 886-909)                                                             *)

\* largest "tries" explored besides the two the decorators give
MaxTries == 4

\* tries of @retry(AssertionError, tries=20, delay=10, backoff=1)
VALIDATE_PV_DELETE_TRIES == 20

Retried == {"verify_pvs_created", "validate_pv_delete"}

\* the decorator's "tries" argument
DecoratedTries(f) ==
    IF f = "verify_pvs_created" THEN VERIFY_PVS_TRIES ELSE VALIDATE_PV_DELETE_TRIES

\* the decorator retrying on a failed command as well
exception_to_check_and_CommandFailed(f) == {"AssertionError", "CommandFailed"}

\* the decorator's first argument: AssertionError for both callables
exception_to_check(f) == {"AssertionError"}

\* what the cluster may answer to the one query the callable makes
Answers(f) ==
    IF f = "verify_pvs_created"
       THEN {"CommandFailed", "no items", "other count", "not Available", "Available"}
       ELSE {"CommandFailed", "found", "nothing"}

\* deployment.py lines 1146-1166: one run of verify_pvs_created's body
verify_pvs_created_once(answer) ==
    IF answer = "CommandFailed" THEN [kind |-> "raised", value |-> "CommandFailed"]
    ELSE IF answer \in {"no items", "other count", "not Available"}
       THEN [kind |-> "raised", value |-> "AssertionError"]
    ELSE [kind |-> "returned", value |-> "None"]

\* tests/helpers.py lines 898-909: one run of validate_pv_delete's body
validate_pv_delete_once(answer) ==
    IF answer = "found" THEN [kind |-> "raised", value |-> "AssertionError"]
    ELSE IF answer = "CommandFailed" THEN [kind |-> "returned", value |-> "True"]
    ELSE [kind |-> "returned", value |-> "None"]

RetryArgs == [f : Retried, tries : 1..MaxTries] \cup {[f |-> g, tries |-> DecoratedTries(g)] : g \in Retried}

\* one invocation of the wrapped callable by the wrapper retry returns:
\* a result is returned, a matched exception is retried while invocations
\* remain and re-raised after the last, anything else propagates at once
f_retry ==
    /\ fn = "retry" /\ hpc = "f_retry"
    /\ \E answer \in Answers(args.f) :
          LET r == IF args.f = "verify_pvs_created" THEN verify_pvs_created_once(answer)
                   ELSE validate_pv_delete_once(answer)
          IN /\ attempts' = Append(attempts, IF r.kind = "returned" THEN "returned" ELSE r.value)
             /\ IF r.kind = "returned" THEN HReturn(r.value)
                ELSE IF r.value \in exception_to_check(args.f) /\ Len(attempts) + 1 < args.tries
                   THEN UNCHANGED <<hpc, result>>
                ELSE HRaise(HExc(r.value, <<args.f>>))
    /\ UNCHANGED <<fn, args, trace, samples>>
    /\ UNCHANGED deployment_vars

----------------------------------------------------------------------------
(* Deployment.label_and_taint_nodes, lines 176-257, node by node *)

\* availability zones of the worker nodes explored
Zones == {"a", "b"}

\* the worker nodes "oc get node" lists, each given by its zone label; node
\* i is the i-th worker listed
RECURSIVE WorkerLists(_)
WorkerLists(n) ==
    IF n = 0 THEN {<<>>}
    ELSE WorkerLists(n - 1) \cup {Append(w, z) : w \in {v \in WorkerLists(n - 1) : Len(v) = n - 1}, z \in Zones}

LabelAndTaintNodesArgs ==
    [ worker_zones : WorkerLists(MaxWorkers),
      ocs_operator_nodes_to_label : 0..MaxWorkers,
      ocs_operator_nodes_to_taint : 0..MaxWorkers,
      infra_label : BOOL ]

\* lines 189-196: az_worker_nodes, the worker nodes of each zone in listing
\* order, and its keys in order of first appearance
AzWorkerNodes(worker_zones) ==
    [z \in Zones |-> SelectSeq([i \in 1..Len(worker_zones) |-> i],
                               LAMBDA i : worker_zones[i] = z)]

AzKeys(worker_zones) ==
    LET first == SelectSeq([i \in 1..Len(worker_zones) |-> i],
                           LAMBDA i : \A j \in 1..(i - 1) : worker_zones[j] # worker_zones[i])
    IN [k \in DOMAIN first |-> worker_zones[first[k]]]

\* lines 198-206: each pass of the while loop pops one node of every zone
\* still holding nodes and drops the zones found empty
RECURSIVE Distribute(_, _, _)
Distribute(keys, az_worker_nodes, distributed_worker_nodes) ==
    IF keys = <<>> THEN distributed_worker_nodes
    ELSE LET live == SelectSeq(keys, LAMBDA z : az_worker_nodes[z] # <<>>)
             popped == [k \in DOMAIN live |-> Head(az_worker_nodes[live[k]])]
             rest == [z \in Zones |-> IF az_worker_nodes[z] # <<>>
                                         THEN Tail(az_worker_nodes[z]) ELSE <<>>]
         IN Distribute(live, rest, distributed_worker_nodes \o popped)

DistributedWorkerNodes(worker_zones) ==
    Distribute(AzKeys(worker_zones), AzWorkerNodes(worker_zones), <<>>)

\* s[:n]
Prefix(s, n) == SubSeq(s, 1, Min(n, Len(s)))

\* lines 181-217: list the nodes, check the counts
get_worker_nodes ==
    /\ fn = "label_and_taint_nodes" /\ hpc = "get_worker_nodes"
    /\ \/ /\ HCall("oc get node", "items")
          /\ LET worker_count_now == Len(args.worker_zones)
             IN IF worker_count_now = 0
                   THEN HRaise(HExc("UnavailableResourceException", <<"No worker node found!">>))
                ELSE IF \/ worker_count_now < args.ocs_operator_nodes_to_label
                        \/ worker_count_now < args.ocs_operator_nodes_to_taint
                   THEN HRaise(HExc("UnavailableResourceException", <<"Not enough worker nodes">>))
                ELSE hpc' = "label_workers" /\ UNCHANGED result
       \/ /\ HCall("oc get node", "CommandFailed")
          /\ HRaise(HExc("CommandFailed", <<"oc get node">>))
    /\ UNCHANGED <<fn, args, samples, attempts>>
    /\ UNCHANGED deployment_vars

\* every worker labelled, whatever ocs_operator_nodes_to_label says
label_workers_all ==
    /\ fn = "label_and_taint_nodes" /\ hpc = "label_workers"
    /\ HCall("oc label nodes", DistributedWorkerNodes(args.worker_zones))
    /\ hpc' = "taint_workers" /\ UNCHANGED result
    /\ UNCHANGED <<fn, args, samples, attempts>>
    /\ UNCHANGED deployment_vars

\* lines 219-246: label distributed_worker_nodes[:to_label], with the infra
\* label as a second command when asked for
label_workers ==
    /\ fn = "label_and_taint_nodes" /\ hpc = "label_workers"
    /\ LET workers_to_label ==
               Prefix(DistributedWorkerNodes(args.worker_zones), args.ocs_operator_nodes_to_label)
       IN IF workers_to_label = <<>>
             THEN hpc' = "taint_workers" /\ UNCHANGED <<trace, result>>
             ELSE \/ /\ trace' = trace \o
                            (IF args.infra_label
                                THEN << <<"oc label nodes", workers_to_label>>,
                                        <<"oc label nodes infra", workers_to_label>> >>
                                ELSE << <<"oc label nodes", workers_to_label>> >>)
                     /\ hpc' = "taint_workers" /\ UNCHANGED result
                  \/ /\ HCall("oc label nodes", workers_to_label)
                     /\ HRaise(HExc("CommandFailed", <<"oc label nodes">>))
    /\ UNCHANGED <<fn, args, samples, attempts>>
    /\ UNCHANGED deployment_vars

\* lines 248-257: taint distributed_worker_nodes[:to_taint]
taint_workers ==
    /\ fn = "label_and_taint_nodes" /\ hpc = "taint_workers"
    /\ LET workers_to_taint ==
               Prefix(DistributedWorkerNodes(args.worker_zones), args.ocs_operator_nodes_to_taint)
       IN IF workers_to_taint = <<>>
             THEN HReturn("None") /\ UNCHANGED trace
             ELSE /\ HCall("oc adm taint nodes", workers_to_taint)
                  /\ \/ HReturn("None")
                     \/ HRaise(HExc("CommandFailed", <<"oc adm taint nodes">>))
    /\ UNCHANGED <<fn, args, samples, attempts>>
    /\ UNCHANGED deployment_vars

LabelAndTaintNodesNext == get_worker_nodes \/ label_workers \/ taint_workers

----------------------------------------------------------------------------
(* tests/helpers.py: wait_for_ct_pod_recovery, lines 2048-2074 *)

\* what str(ex) of a CommandFailed of get_admin_key may hold
AdminKeyErrors == {<<"connection timed out">>, <<"error">>}

\* lines 2057-2061 and 2072-2074: get_admin_key, and the branches that do
\* not wait
get_admin_key ==
    /\ fn = "wait_for_ct_pod_recovery" /\ hpc = "get_admin_key"
    /\ \/ /\ HCall("get_admin_key", "key")
          /\ HReturn("True")
       \/ \E m \in AdminKeyErrors :
            /\ HCall("get_admin_key", "CommandFailed")
            /\ IF Contains(m, "connection timed out")
                  THEN hpc' = "wait_for_new_tools_pod" /\ UNCHANGED result
                  ELSE HReturn("False")
       \/ /\ HCall("get_admin_key", "TimeoutExpiredError")
          /\ HRaise(HExc("TimeoutExpiredError", <<"get_admin_key">>))
    /\ UNCHANGED <<fn, args, samples, attempts>>
    /\ UNCHANGED deployment_vars

\* lines 2066-2071: wait_for_resource_count_change(previous_num=1,
\* timeout=120) with its defaults change_type='increase', min_difference=1;
\* what it returns is dropped and True is returned
wait_for_new_tools_pod ==
    /\ fn = "wait_for_ct_pod_recovery" /\ hpc = "wait_for_new_tools_pod"
    /\ \/ \E current_num \in 0..MaxCount :
            /\ Len(samples) < MaxSamples
            /\ samples' = Append(samples, current_num)
            /\ IF CountDiff("increase", current_num, 1) >= 1
                  THEN /\ HCall("wait_for_resource_count_change", "True")
                       /\ HReturn("True")
                  ELSE UNCHANGED <<trace, hpc, result>>
       \/ /\ HCall("wait_for_resource_count_change", "False")
          /\ HReturn("True")
          /\ UNCHANGED samples
    /\ UNCHANGED <<fn, args, attempts>>
    /\ UNCHANGED deployment_vars

WaitForCtPodRecoveryNext == get_admin_key \/ wait_for_new_tools_pod

----------------------------------------------------------------------------
(* tests/helpers.py: delete_objs_parallel (lines 1793-1810),               *)
(* create_pods_parallel (lines 1744-1790) and create_multiple_pvc_parallel *)
(* (lines 1705-1741)                                                       *)

\* objects handed to one call
MaxObjs == 3

Parallel == {"delete_objs_parallel", "create_pods_parallel", "create_multiple_pvc_parallel"}

DeleteObjsParallelArgs == [obj_list : 0..MaxObjs]
CreatePodsParallelArgs == [pvc_list : 0..MaxObjs]
CreateMultiplePvcParallelArgs == [access_modes : {1, 2}, number_of_pvc : {1, 2}]

\* a thread or future that has just been started
Started(task) == [task |-> task, state |-> "running", value |-> "None", joined |-> FALSE]

Tasks(task) == {i \in DOMAIN threads : threads[i].task = task}

AllDone(task) == \A i \in Tasks(task) : threads[i].state # "running"

\* what a task returns when it does not raise: obj.delete() and create_pod
\* an object, wait_for_resource_state (lines 86-114) None
Returns(task) == IF task = "wait" THEN "None" ELSE "object"

\* what a task raises: a failed command for a deletion or a creation,
\* ResourceWrongStatusException (line 113) for a wait that timed out
Raises(task) == IF task = "wait" THEN "ResourceWrongStatusException" ELSE "CommandFailed"

\* a started thread runs to its end, at any time, returning or raising
thread_runs ==
    /\ fn \in Parallel
    /\ \E i \in DOMAIN threads :
          /\ threads[i].state = "running"
          /\ \/ threads' = [threads EXCEPT ![i].state = "returned",
                                           ![i].value = Returns(threads[i].task)]
             \/ threads' = [threads EXCEPT ![i].state = "raised",
                                           ![i].value = Raises(threads[i].task)]
    /\ UNCHANGED <<fn, args, hpc, trace, samples, attempts, result>>
    /\ UNCHANGED deployment_vars

\* lines 1803-1807: one thread per object, started in list order
delete_objs_parallel_start ==
    /\ fn = "delete_objs_parallel" /\ hpc = "start"
    /\ IF Len(threads) < args.obj_list
          THEN threads' = Append(threads, Started("delete")) /\ UNCHANGED hpc
          ELSE hpc' = "join" /\ UNCHANGED threads
    /\ UNCHANGED <<fn, args, trace, samples, attempts, result>>
    /\ UNCHANGED deployment_vars

\* lines 1808-1810: join every thread in order, then "return True"; an
\* exception of obj.delete ended its thread and is not seen here
delete_objs_parallel_join ==
    /\ fn = "delete_objs_parallel" /\ hpc = "join"
    /\ LET unjoined == {i \in DOMAIN threads : ~threads[i].joined}
       IN IF unjoined # {}
             THEN LET i == CHOOSE j \in unjoined : \A k \in unjoined : j <= k
                  IN /\ threads[i].state # "running"
                     /\ threads' = [threads EXCEPT ![i].joined = TRUE]
                     /\ UNCHANGED <<hpc, result>>
             ELSE HReturn("True") /\ UNCHANGED threads
    /\ UNCHANGED <<fn, args, trace, samples, attempts>>
    /\ UNCHANGED deployment_vars

\* creations submitted: one per PVC to attach, or one per access mode
Creations(a) ==
    IF fn = "create_pods_parallel" THEN a.pvc_list ELSE a.access_modes

\* objects the creations return: one pod each, or number_of_pvc PVCs each
Objects(a) ==
    IF fn = "create_pods_parallel" THEN a.pvc_list ELSE a.access_modes * a.number_of_pvc

\* the first exception in list order among the futures of a task, which
\* "[f.result() for f in futures]" re-raises
FirstRaised(task) ==
    LET i == CHOOSE j \in Tasks(task) :
                 /\ threads[j].state = "raised"
                 /\ \A k \in Tasks(task) : threads[k].state = "raised" => j <= k
    IN threads[i].value

\* lines 1771-1778 / 1723-1730: submit the creations
create_parallel_submit ==
    /\ fn \in {"create_pods_parallel", "create_multiple_pvc_parallel"} /\ hpc = "submit"
    /\ IF Len(threads) < Creations(args)
          THEN threads' = Append(threads, Started("create")) /\ UNCHANGED hpc
          ELSE hpc' = "created" /\ UNCHANGED threads
    /\ UNCHANGED <<fn, args, trace, samples, attempts, result>>
    /\ UNCHANGED deployment_vars

\* the executor's "with" block ends when every creation has, then lines
\* 1779 / 1731-1732 read the results
create_parallel_created ==
    /\ fn \in {"create_pods_parallel", "create_multiple_pvc_parallel"} /\ hpc = "created"
    /\ AllDone("create")
    /\ IF \E i \in Tasks("create") : threads[i].state = "raised"
          THEN HRaise(HExc(FirstRaised("create"), <<"create">>))
          ELSE hpc' = "wait" /\ UNCHANGED result
    /\ UNCHANGED <<fn, args, trace, samples, attempts, threads>>
    /\ UNCHANGED deployment_vars

\* lines 1782-1786 / 1734-1738: one wait_for_resource_state per object
create_parallel_wait ==
    /\ fn \in {"create_pods_parallel", "create_multiple_pvc_parallel"} /\ hpc = "wait"
    /\ IF Cardinality(Tasks("wait")) < Objects(args)
          THEN threads' = Append(threads, Started("wait")) /\ UNCHANGED hpc
          ELSE hpc' = "waited" /\ UNCHANGED threads
    /\ UNCHANGED <<fn, args, trace, samples, attempts, result>>
    /\ UNCHANGED deployment_vars

\* the second "with" block ends when every wait has, then lines 1788-1790
\* / 1739-1741: "False in [f.result() ...]" re-raises what a wait raised,
\* raises TimeoutExpiredError on a False result, else the objects are
\* returned
create_parallel_waited ==
    /\ fn \in {"create_pods_parallel", "create_multiple_pvc_parallel"} /\ hpc = "waited"
    /\ AllDone("wait")
    /\ IF \E i \in Tasks("wait") : threads[i].state = "raised"
          THEN HRaise(HExc(FirstRaised("wait"), <<"wait_for_resource_state">>))
       ELSE IF \E i \in DOMAIN threads : threads[i].value = "False"
          THEN HRaise(HExc("TimeoutExpiredError", <<>>))
       ELSE HReturn(Objects(args))
    /\ UNCHANGED <<fn, args, trace, samples, attempts, threads>>
    /\ UNCHANGED deployment_vars

ParallelNext ==
    \/ thread_runs
    \/ delete_objs_parallel_start \/ delete_objs_parallel_join
    \/ create_parallel_submit \/ create_parallel_created
    \/ create_parallel_wait \/ create_parallel_waited

----------------------------------------------------------------------------
(* Specification of the helper functions *)

HelperInit ==
    /\ NoDeployment
    /\ \/ \E a \in WaitForResourceStateArgs :
             HelperStart("wait_for_resource_state", a, "wait_for_resource_state")
       \/ \E a \in WaitForResourceCountChangeArgs :
             HelperStart("wait_for_resource_count_change", a, "wait_for_resource_count_change")
       \/ \E a \in RetryArgs : HelperStart("retry", a, "f_retry")
       \/ \E a \in LabelAndTaintNodesArgs :
             HelperStart("label_and_taint_nodes", a, "get_worker_nodes")
       \/ HelperStart("wait_for_ct_pod_recovery", <<>>, "get_admin_key")
       \/ \E a \in DeleteObjsParallelArgs : HelperStart("delete_objs_parallel", a, "start")
       \/ \E a \in CreatePodsParallelArgs : HelperStart("create_pods_parallel", a, "submit")
       \/ \E a \in CreateMultiplePvcParallelArgs :
             HelperStart("create_multiple_pvc_parallel", a, "submit")

HelperNext ==
    \/ /\ \/ WaitForResourceStateNext
          \/ wait_for_resource_count_change
          \/ f_retry
          \/ LabelAndTaintNodesNext
          \/ WaitForCtPodRecoveryNext
       /\ UNCHANGED threads
    \/ ParallelNext

HelperSpec == HelperInit /\ [][HelperNext]_vars

----------------------------------------------------------------------------
(* Deployment.destroy_cluster, lines 800-823 *)

\* platform and skip flags of a teardown
TeardownConfigs ==
    { [DefaultCfg EXCEPT !.platform = a, !.skip_ocp_deployment = b,
                         !.skip_ocs_deployment = c] :
        a \in Platforms, b \in BOOL, c \in BOOL }

TeardownStep(next) ==
    /\ pc' = next
    /\ UNCHANGED <<dc_result, raised>>

teardown_frame ==
    <<cfg, ocs_result, ocs_exc, is_ocp_deployment_failed, DEFAULT_STORAGECLASS, worker_count,
      tries_left, cluster_data, csv_phase, err, health, ceph_cluster, documents>>

\* lines 808-815: the platform branch
destroy_cluster ==
    /\ pc = "destroy_cluster"
    /\ IF cfg.platform = IBM_POWER_PLATFORM
          THEN IF ~cfg.skip_ocs_deployment
                  THEN TeardownStep("destroy_ocs")
                  ELSE Finish("returned", NoExc)   \* lines 812-813: only a log line
          ELSE TeardownStep("uninstall_ocs")       \* line 815: self.OCPDeployment()
    /\ UNCHANGED <<calls, caught>>
    /\ UNCHANGED teardown_frame
    /\ UNCHANGED helper_vars

\* line 810: self.destroy_ocs(); "Destroy of OCP not implemented yet."
destroy_ocs ==
    /\ pc = "destroy_ocs"
    /\ Call("destroy_ocs")
    /\ \/ Finish("returned", NoExc)
       \/ Finish("raised", Exc("CommandFailed", "destroy_ocs"))
    /\ UNCHANGED caught
    /\ UNCHANGED teardown_frame
    /\ UNCHANGED helper_vars

\* uninstall_ocs whose failure leaves destroy_cluster
uninstall_ocs_propagate ==
    /\ pc = "uninstall_ocs"
    /\ Call("uninstall_ocs")
    /\ \/ TeardownStep("ocp_deployment_destroy")
       \/ Finish("raised", Exc("CommandFailed", "uninstall_ocs"))
    /\ UNCHANGED caught
    /\ UNCHANGED teardown_frame
    /\ UNCHANGED helper_vars

\* lines 816-822: try: uninstall_ocs() except Exception: log, resume teardown
uninstall_ocs ==
    /\ pc = "uninstall_ocs"
    /\ Call("uninstall_ocs")
    /\ TeardownStep("ocp_deployment_destroy")
    /\ \/ UNCHANGED caught
       \/ caught' = Exc("CommandFailed", "uninstall_ocs")
    /\ UNCHANGED teardown_frame
    /\ UNCHANGED helper_vars

\* line 823: self.ocp_deployment.destroy(log_level)
ocp_deployment_destroy ==
    /\ pc = "ocp_deployment_destroy"
    /\ Call("ocp_deployment.destroy")
    /\ \/ Finish("returned", NoExc)
       \/ Finish("raised", Exc("CommandFailed", "ocp_deployment.destroy"))
    /\ UNCHANGED caught
    /\ UNCHANGED teardown_frame
    /\ UNCHANGED helper_vars

TeardownInit ==
    /\ NoHelper
    /\ cfg \in TeardownConfigs
    /\ pc = "destroy_cluster"
    /\ calls = <<>>
    /\ caught = NoExc
    /\ dc_result = "running"
    /\ raised = NoExc
    /\ ocs_result = "none"
    /\ ocs_exc = NoExc
    /\ is_ocp_deployment_failed = FALSE
    /\ DEFAULT_STORAGECLASS = cfg.DEFAULT_STORAGECLASS
    /\ worker_count = 0
    /\ tries_left = 0
    /\ cluster_data = "None"
    /\ csv_phase = "none"
    /\ err = <<>>
    /\ health = "none"
    /\ ceph_cluster \in {"exists", "empty"}
    /\ documents = <<>>

TeardownNext == destroy_cluster \/ destroy_ocs \/ uninstall_ocs \/ ocp_deployment_destroy

TeardownSpec == TeardownInit /\ [][TeardownNext]_vars

----------------------------------------------------------------------------
(* Two assemblies of the storage-cluster document in one process           *)
(* (deploy_ocs_via_operator, lines 412-583, run twice on one Deployment)    *)

\* how many times the document is assembled
Runs == 2

\* everything lines 412-583 read from the configuration
AssemblyConfigs ==
    { [DefaultCfg EXCEPT !.platform = a, !.local_storage = b,
                         !.allow_lower_instance_requirements = c,
                         !.ocs_version = d, !.ocp_version = e,
                         !.host_network = f, !.encryption_at_rest = g,
                         !.CUSTOM_STORAGE_CLASS_PATH = h,
                         !.DEFAULT_STORAGECLASS = i, !.device_size = j] :
        a \in Platforms, b \in BOOL, c \in BOOL, d \in Minors, e \in {5, 6},
        f \in BOOL, g \in BOOL, h \in BOOL, i \in {"None", "gp2"},
        j \in {"None", "512Gi"} }

AssemblyInit ==
    /\ NoHelper
    /\ cfg \in AssemblyConfigs
    /\ pc = "custom_storage_class"
    /\ calls = <<>>
    /\ caught = NoExc
    /\ dc_result = "running"
    /\ raised = NoExc
    /\ ocs_result = "none"
    /\ ocs_exc = NoExc
    /\ is_ocp_deployment_failed = FALSE
    /\ DEFAULT_STORAGECLASS = cfg.DEFAULT_STORAGECLASS
    /\ worker_count = 0
    /\ tries_left = 0
    /\ cluster_data = "None"
    /\ csv_phase = "none"
    /\ err = <<>>
    /\ health = "none"
    /\ ceph_cluster = "empty"
    /\ documents = <<>>

\* lines 578-583: the document handed to "oc create" is the one assembled
submit_storage_cluster ==
    /\ create_storage_cluster
    /\ documents' = IF EncryptionCheck(cfg) # NoExc THEN documents
                    ELSE Append(documents, cluster_data')

\* lines 412-424 entered again: the template is loaded afresh, the instance
\* attribute DEFAULT_STORAGECLASS keeps what the previous run left in it
assemble_again ==
    /\ pc = AfterStorageCluster
    /\ Len(documents) < Runs
    /\ pc' = "custom_storage_class"
    /\ cluster_data' = "None"
    /\ UNCHANGED dc_frame
    /\ UNCHANGED <<calls, caught, ocs_result, ocs_exc, documents>>
    /\ UNCHANGED <<DEFAULT_STORAGECLASS, worker_count, tries_left, csv_phase, err, health>>

AssemblyNext ==
    \/ (custom_storage_class /\ UNCHANGED documents /\ UNCHANGED helper_vars)
    \/ (get_pv_size /\ UNCHANGED documents /\ UNCHANGED helper_vars)
    \/ (submit_storage_cluster /\ UNCHANGED helper_vars)
    \/ (assemble_again /\ UNCHANGED helper_vars)

AssemblySpec == AssemblyInit /\ [][AssemblyNext]_vars

----------------------------------------------------------------------------
(* History predicates *)

Called(name) == \E i \in 1..Len(calls) : calls[i] = name

Count(name) == Cardinality({i \in 1..Len(calls) : calls[i] = name})

\* position of the first call of that name (0 when never called)
Index(name) ==
    IF Called(name) THEN CHOOSE i \in 1..Len(calls) :
                            /\ calls[i] = name
                            /\ \A j \in 1..(i - 1) : calls[j] # name
    ELSE 0

CollectCalls ==
    { "collect_ocs_logs(ocs=False)", "collect_ocs_logs(ocp=False)",
      "collect_ocs_logs(ocp=False,status_failure=False)" }

CollectCalled == \E c \in CollectCalls : Called(c)

\* calls deploy_cluster, deploy_ocp and post_ocp_deploy make themselves
OwnCallsOfDeployCluster ==
    CollectCalls \cup
    { "is_cluster_running", "ocp_deployment.deploy_prereq", "ocp_deployment.deploy",
      "oc get clusterversion", "set_selinux_permissions", "set_registry_to_managed_state",
      "add_stage_cert" }

\* create, patch, label, taint, annotate, apply: calls that change the cluster
IsMutating(name) ==
    name \in { "oc create olm", "oc create catalogsource", "oc create operatorsource",
               "oc create operatorsource secret", "oc create subscription",
               "oc create custom storageclass", "oc create storagecluster",
               "oc create external secret", "oc create external storagecluster",
               "oc label nodes", "oc label nodes infra", "oc adm taint nodes",
               "oc annotate namespace", "oc patch image.config", "oc apply icsp",
               "oc patch storageclass", "modify_csv", "wait_for_install_plan_and_approve",
               "oc create optional-operators", "oc create local-storage-operator",
               "oc create LocalVolumeDiscovery", "oc create LocalVolumeSet",
               "oc create LocalVolume" }

\* the exception of the phase that failed, NoExc when none did
PhaseFailure ==
    IF is_ocp_deployment_failed THEN caught
    ELSE IF ocs_result = "raised" THEN ocs_exc
    ELSE NoExc

Ended == pc = "done"

----------------------------------------------------------------------------
(* Claims *)

\* C1: whenever deploy_ocp/post_ocp_deploy or deploy_ocs raises, deploy_cluster
\* ends by raising that same exception, never by returning, whatever the
\* skip and reporting flags.
C1_PhaseFailureReRaised ==
    (Ended /\ PhaseFailure # NoExc) => (dc_result = "raised" /\ raised = PhaseFailure)

\* C2: the collection after a failed phase is isolated: no exception of
\* collect_ocs_logs leaves deploy_cluster, and after a storage-phase failure
\* with gathering enabled both collections have run.
C2_CollectionIsolated ==
    (Ended /\ PhaseFailure # NoExc /\ cfg.gather_on_deploy_failure) =>
        /\ raised.at \notin CollectCalls
        /\ (ocs_result = "raised" =>
                Called("collect_ocs_logs(ocs=False)") /\ Called("collect_ocs_logs(ocp=False)"))

\* C3 (as stated): whenever deploy_cluster ends with a failed platform or
\* storage phase, collect_ocs_logs was invoked at least once.
C3_AlwaysCollected ==
    (Ended /\ PhaseFailure # NoExc) => CollectCalled

\* C3 (amended): whenever deploy_cluster ends with a failed platform or
\* storage phase and gather_on_deploy_failure is set, collect_ocs_logs was
\* invoked at least once before the exception left deploy_cluster; with the
\* flag unset nothing is collected on that path.
C3_CollectedWhenGathering ==
    (Ended /\ PhaseFailure # NoExc) =>
        IF cfg.gather_on_deploy_failure
           THEN Called("collect_ocs_logs(ocs=False)")
           ELSE ~CollectCalled

C3_Witness ==
    /\ Ended /\ ocs_result = "raised" /\ cfg.gather_on_deploy_failure
    /\ Called("collect_ocs_logs(ocs=False)")

\* the platform phase was skipped (flag, or cluster already running) or ran
\* to the end of post_ocp_deploy without raising
PlatformPhasePassed ==
    \/ cfg.skip_ocp_deployment
    \/ Called("is_cluster_running") /\ ~Called("ocp_deployment.deploy_prereq")
    \/ Called("add_stage_cert") /\ ~is_ocp_deployment_failed

\* C4: NotStarted -> PlatformProvisioning -> StorageInstalling -> Done: the
\* storage phase starts only after the platform phase succeeded or was
\* skipped, each phase is entered at most once, and after a failed phase no
\* later phase starts and deploy_cluster never returns normally.
C4_Lifecycle ==
    /\ ocs_result # "none" => PlatformPhasePassed
    /\ Count("ocp_deployment.deploy_prereq") <= 1
    /\ Count("oc get CephCluster") <= 1
    /\ is_ocp_deployment_failed => (ocs_result = "none" /\ ~Called("oc get CephCluster"))
    /\ PhaseFailure # NoExc => dc_result # "returned"
    /\ dc_result = "returned" =>
          (PlatformPhasePassed /\ (cfg.skip_ocs_deployment \/ ocs_result = "returned"))

C4_Witness ==
    /\ Ended /\ dc_result = "returned"
    /\ Called("add_stage_cert") /\ ocs_result = "returned"
    /\ Called("oc patch storageclass")

\* C5: with a CephCluster already present, deploy_ocs returns normally
\* having issued nothing but the existence probe, in both modes.
C5_ExistingClusterNoOp ==
    ceph_cluster = "exists" =>
        /\ ocs_result # "raised"
        /\ ocs_result = "returned" => Ended \/ pc \in {"dc_ocs_returned", "dc_collect_success", "dc_ocs_except",
                                                       "dc_ocs_collect_ocp", "dc_ocs_collect_ocs"}
        /\ \A i \in 1..Len(calls) :
              calls[i] \in OwnCallsOfDeployCluster \cup {"oc get CephCluster"}
        /\ cluster_data = "None" /\ csv_phase = "none"

C5_Witness ==
    /\ ceph_cluster = "exists" /\ ocs_result = "returned" /\ cfg.external_mode
    /\ Called("oc get CephCluster")

EncryptionBelow46 ==
    cfg.encryption_at_rest /\ VersionFloat(cfg.ocs_version) < 460 /\ ~cfg.external_mode

ApproveCall == "wait_for_install_plan_and_approve"
CsvWaitCall == "csv.wait_for_phase(Succeeded,720)"

\* C7: with subscription_plan_approval "Manual" the install plan is approved
\* right after the subscription is created and before the CSV phase is
\* polled; with "Automatic" or no value the approval is never invoked.
C7_ManualApproval ==
    /\ cfg.subscription_plan_approval # "Manual" => ~Called(ApproveCall)
    /\ Count(ApproveCall) <= 1
    /\ Called(ApproveCall) =>
          /\ Called("oc create subscription")
          /\ Index(ApproveCall) = Index("oc create subscription") + 1
    /\ (cfg.subscription_plan_approval = "Manual" /\ Called(CsvWaitCall)) =>
          /\ Called(ApproveCall)
          /\ Index("oc create subscription") < Index(ApproveCall)
          /\ Index(ApproveCall) < Index(CsvWaitCall)
    /\ (cfg.subscription_plan_approval = "Manual" /\ Called("oc create subscription")) =>
          \/ Called(ApproveCall)
          \/ pc = "wait_for_install_plan_and_approve"
          \/ ocs_exc.at = "oc create subscription"

C7_Witness ==
    /\ cfg.subscription_plan_approval = "Manual"
    /\ Called(ApproveCall) /\ Called(CsvWaitCall) /\ csv_phase = "Succeeded"

StorageClusterCreates ==
    Count("oc create storagecluster") + Count("oc create external storagecluster")

\* C8: the storage-cluster resource is created only after the CSV was
\* observed Succeeded; a failed CSV wait or package-manifest wait leaves
\* deploy_ocs as an error with no re-run of the subscription sequence and no
\* storage-cluster create; at most one storage-cluster create per run.
C8_CreateAfterCsvSucceeded ==
    /\ StorageClusterCreates <= 1
    /\ StorageClusterCreates = 1 =>
          /\ csv_phase = "Succeeded"
          /\ Called(CsvWaitCall)
          /\ \A i \in 1..Len(calls) :
                calls[i] \in {"oc create storagecluster", "oc create external storagecluster"}
                    => Index(CsvWaitCall) < i
    /\ Count("oc create subscription") <= 1
    /\ Count(CsvWaitCall) <= 1
    /\ Count("package_manifest.wait_for_resource(300)") <= 2
    /\ ocs_exc.at \in {CsvWaitCall, "package_manifest.wait_for_resource(300)"} =>
          /\ ocs_result = "raised"
          /\ StorageClusterCreates = 0
          /\ pc \in {"dc_ocs_except", "dc_ocs_collect_ocp", "dc_ocs_collect_ocs", "done"}
          /\ Ended => dc_result = "raised"

C8_Witness ==
    /\ Called("oc create storagecluster") /\ csv_phase = "Succeeded"
    /\ ocs_result = "returned"

\* C9: a first health check failing with a CephHealthException that does
\* not mention clock skew makes deploy_ocs end with an error: it neither
\* patches the default storage class nor returns normally.
C9_HealthFailureNotSuppressed ==
    (err # <<>> /\ ~Contains(err, "clock skew detected")) =>
        /\ ocs_result # "returned"
        /\ pc # "patch_default_sc_to_non_default"
        /\ ~Called("oc patch storageclass")

\* the recheck of line 795 was made and did not raise
RecheckSucceeded ==
    /\ Called("ceph_health_check(tries=60)")
    /\ ~(ocs_result = "raised" /\ ocs_exc.at = "ceph_health_check(tries=60)")

FirstCheck == "ceph_health_check(tries=30)"
Recheck == "ceph_health_check(tries=60)"

\* C11: health recovery in deploy_ocs is one remediation and one recheck:
\* the health check is invoked at most twice (30 tries, then 60 tries), the
\* time resync at most once, the recheck only after a first failure whose
\* text holds the clock-skew marker, and a failed recheck fails deploy_ocs.
C11_SingleRemediationAndRecheck ==
    /\ Count(FirstCheck) <= 1
    /\ Count(Recheck) <= 1
    /\ Count("update_ntp_compute_nodes") <= 1
    /\ Called(Recheck) =>
          /\ Called(FirstCheck) /\ Index(FirstCheck) < Index(Recheck)
          /\ Contains(err, "clock skew detected")
    /\ Called("update_ntp_compute_nodes") =>
          /\ Contains(err, "clock skew detected")
          /\ Index(FirstCheck) < Index("update_ntp_compute_nodes")
    /\ (Called(Recheck) /\ health = "failed") =>
          /\ ocs_result = "raised" /\ ocs_exc.at = Recheck
          /\ ~Called("oc patch storageclass")
          /\ Ended => dc_result = "raised"

C11_Witness ==
    /\ Called(Recheck) /\ health = "failed"
    /\ Called("update_ntp_compute_nodes")
    /\ Ended /\ dc_result = "raised"

\* the post-submission steps of deploy_ocs, lines 689-798, in code order
ConvergenceOrder ==
    << "wait_for_resource(app=rook-ceph-mon,3)", "wait_for_resource(app=rook-ceph-mgr)",
       "wait_for_resource(app=rook-ceph-osd,3)", "validate_cluster_on_pvc",
       "validate_pdb_creation", "setup_ceph_toolbox",
       "wait_for_resource(app=rook-ceph-tools,1)", "oc get CephFileSystem",
       "validate_cephfilesystem", "default_storage_class(CephBlockPool)",
       "create_configmap_cluster_monitoring_pod(sc)",
       "validate_pods_are_respinned_and_running_state",
       "validate_pvc_created_and_bound_on_monitoring_pods",
       "validate_pvc_are_mounted_on_monitoring_pods",
       "create_configmap_cluster_monitoring_pod(telemeter)",
       "change_registry_backend_to_ocs", FirstCheck, "oc patch storageclass" >>

\* steps made only when monitoring is requested
MonitoringSteps == { ConvergenceOrder[i] : i \in 10..15 }

\* the steps run in code order, and a step that raised is the last one made
ConvergenceInOrder ==
    \A i \in 1..Len(ConvergenceOrder) : \A j \in (i + 1)..Len(ConvergenceOrder) :
        LET a == ConvergenceOrder[i]
            b == ConvergenceOrder[j]
        IN /\ Called(b) => /\ Called(a) \/ a \in MonitoringSteps
                           /\ Called(a) => Index(a) < Index(b)
                           /\ Count(b) = 1
           /\ (ocs_result = "raised" /\ ocs_exc.at = a) => ~Called(b)

\* C12: in operator mode the post-submission steps of deploy_ocs run in the
\* fixed order pods, PVC backing, PDBs, toolbox, file system, monitoring,
\* health check, default-storage-class patch; each starts only after the
\* previous one finished without error, and a failed step stops the sequence.
C12_OrderedConvergence ==
    ~cfg.external_mode =>
        /\ ConvergenceInOrder
        /\ (pc = "patch_default_sc_to_non_default" \/ Called("oc patch storageclass"))
              => health = "ok"

\* calls only the operator-mode path of deploy_ocs makes (deploy_ocs_via_operator,
\* setup_local_storage and lines 689-798)
OperatorModeOnlyCalls ==
    ({ ConvergenceOrder[i] : i \in 1..Len(ConvergenceOrder) } \ {"setup_ceph_toolbox"})
    \cup { Recheck, "update_ntp_compute_nodes", "get_all_pods(monitoring)",
           "run_openshift_console", "oc get node", "oc label nodes", "oc label nodes infra",
           "oc adm taint nodes", "modify_csv", "oc create custom storageclass", "get_pv_size",
           "oc create storagecluster", "oc annotate namespace", "get_nodes(worker)",
           "get_ocp_ga_version", "oc create optional-operators",
           "oc create local-storage-operator", "oc get pv" }

ExternalCreate == "oc create external storagecluster"

\* calls of deploy_ocs issued after the external storage cluster was created
AfterExternalCreate ==
    { calls[i] : i \in (Index(ExternalCreate) + 1)..Len(calls) } \ CollectCalls

\* C13 (as stated): in external mode deploy_ocs makes no pod wait, no PVC or
\* PDB validation and no call of deploy_ocs_via_operator, and the only step
\* after the external storage cluster is created is the cluster health check.
C13_OnlyHealthCheckAfterCreate ==
    cfg.external_mode =>
        /\ \A i \in 1..Len(calls) : calls[i] \notin OperatorModeOnlyCalls
        /\ Called(ExternalCreate) => AfterExternalCreate \subseteq {"cluster_health_check(300)"}

\* C13 (amended): in external mode deploy_ocs makes no pod wait, no PVC or
\* PDB validation and no call of deploy_ocs_via_operator; after the external
\* storage cluster is created it runs the external cluster health check and
\* then, once that passed, sets up the toolbox pod, and nothing else.
C13_HealthCheckThenToolbox ==
    cfg.external_mode =>
        /\ \A i \in 1..Len(calls) : calls[i] \notin OperatorModeOnlyCalls
        /\ Called(ExternalCreate) =>
              /\ AfterExternalCreate \subseteq {"cluster_health_check(300)", "setup_ceph_toolbox"}
              /\ Count("cluster_health_check(300)") <= 1 /\ Count("setup_ceph_toolbox") <= 1
              /\ Called("setup_ceph_toolbox") =>
                    /\ Called("cluster_health_check(300)")
                    /\ Index("cluster_health_check(300)") < Index("setup_ceph_toolbox")
                    /\ ocs_exc.at # "cluster_health_check(300)"
              /\ ocs_result = "returned" => Called("setup_ceph_toolbox")

C13_Witness ==
    /\ cfg.external_mode /\ Called(ExternalCreate)
    /\ Called("setup_ceph_toolbox") /\ ocs_result = "returned" /\ Ended

DetailsMissing == cfg.external_mode /\ ~cfg.external_cluster_details

\* C14: in external mode with the external cluster connection details absent
\* or empty, deploy_with_external_mode fails with ExternalClusterDetailsException:
\* the credentials secret and the external storage cluster are never created
\* and no health check is run.
C14_MissingDetailsFatal ==
    DetailsMissing =>
        /\ ~Called("oc create external secret")
        /\ ~Called(ExternalCreate)
        /\ ~Called("cluster_health_check(300)") /\ ~Called(FirstCheck) /\ ~Called(Recheck)
        /\ ocs_result = "returned" => ceph_cluster = "exists"
        /\ (csv_phase = "Succeeded" /\ pc # "external_secret") =>
              /\ ocs_result = "raised"
              /\ ocs_exc.type = "ExternalClusterDetailsException"
              /\ Ended => dc_result = "raised"

C14_Witness ==
    /\ DetailsMissing /\ csv_phase = "Succeeded"
    /\ ocs_exc.type = "ExternalClusterDetailsException"
    /\ Ended /\ dc_result = "raised"

\* calls of create_ocs_operator_source and what it calls
SourceCalls ==
    { "quay login", "oc create operatorsource secret", "oc create operatorsource",
      "oc patch image.config", "oc apply icsp", "oc create catalogsource",
      "catalog_source.wait_for_state(READY)" }

SourceCreate == IF cfg.stage THEN "oc create operatorsource" ELSE "oc create catalogsource"
SourceReady == "catalog_source.wait_for_state(READY)"

\* C15: with live_deployment set no catalog source or operator source is
\* created in any run (operator, UI and external mode alike); with it unset
\* the source is created and observed READY before the subscription is created.
C15_SourceOnlyWhenNotLive ==
    /\ cfg.live_deployment => \A i \in 1..Len(calls) : calls[i] \notin SourceCalls
    /\ (~cfg.live_deployment /\ Called("oc create subscription")) =>
          /\ Count(SourceCreate) = 1 /\ Count(SourceReady) = 1
          /\ Index(SourceCreate) < Index(SourceReady)
          /\ Index(SourceReady) < Index("oc create subscription")
          /\ ocs_exc.at # SourceReady
    /\ (~cfg.live_deployment /\ Called("run_openshift_console")) =>
          /\ Count(SourceCreate) = 1 /\ Count(SourceReady) = 1
          /\ Index(SourceReady) < Index("run_openshift_console")

C15_Witness ==
    /\ ~cfg.live_deployment /\ cfg.external_mode
    /\ Called("oc create catalogsource") /\ Called(SourceReady)
    /\ Called("oc create subscription")

IsDefaultClass(name) == name \in {DEFAULT_STORAGECLASS_CEPHFS, DEFAULT_STORAGECLASS_RBD}

WaitForResourceStateDone == fn = "wait_for_resource_state" /\ hpc = "done"

\* C16 (as stated): wait_for_resource_state for one of the two default
\* storage-class names returns true at once, without the client's wait,
\* reload or describe, for every state and timeout.
C16_DefaultClassReturnsTrue ==
    (fn = "wait_for_resource_state" /\ IsDefaultClass(args.name)) =>
        /\ trace = <<>>
        /\ hpc = "done" => (result.kind = "returned" /\ result.value = "True")

\* C16 (amended): wait_for_resource_state for one of the two default
\* storage-class names returns at once with no value (None, as after every
\* successful wait), without the client's wait, reload or describe, for
\* every state and timeout.
C16_DefaultClassReturnsAtOnce ==
    (fn = "wait_for_resource_state" /\ IsDefaultClass(args.name)) =>
        /\ trace = <<>>
        /\ hpc \in {"wait_for_resource_state", "done"}
        /\ hpc = "done" => (result.kind = "returned" /\ result.value = "None")

C16_Witness ==
    /\ WaitForResourceStateDone /\ args.name = DEFAULT_STORAGECLASS_RBD
    /\ args.state = "Bound" /\ args.timeout = 600
    /\ result.kind = "returned" /\ trace = <<>>

ReachesDifference(current_num) ==
    (IF args.change_type = "increase" THEN current_num - args.previous_num
     ELSE args.previous_num - current_num) >= args.min_difference

\* C18: wait_for_resource_count_change returns True iff some sample taken
\* before the timeout has a count whose signed difference from previous_num
\* (current - previous for an increase, previous - current for a decrease)
\* is at least min_difference; it returns on the first such sample, and it
\* returns False, raising nothing, when the timeout expires without one.
C18_CountChange ==
    fn = "wait_for_resource_count_change" =>
        /\ result.kind # "raised"
        /\ \A i \in 1..(Len(samples) - 1) : ~ReachesDifference(samples[i])
        /\ hpc # "done" => \A i \in 1..Len(samples) : ~ReachesDifference(samples[i])
        /\ hpc = "done" =>
              /\ result.kind = "returned" /\ result.value \in {"True", "False"}
              /\ result.value = "True" <=>
                    \E i \in 1..Len(samples) : ReachesDifference(samples[i])
              /\ result.value = "True" => ReachesDifference(samples[Len(samples)])
              /\ result.value = "False" =>
                    trace[Len(trace)] = <<"TimeoutSampler", "TimeoutExpiredError">>

C18_Witness ==
    /\ fn = "wait_for_resource_count_change" /\ hpc = "done"
    /\ args.change_type = "decrease" /\ args.previous_num = 3 /\ args.min_difference = 2
    /\ samples = <<3, 2, 0>> /\ result.value = "True"

RetryDone == fn = "retry" /\ hpc = "done"

\* C19: for every tries >= 1 the callable wrapped by retry is invoked
\* exactly tries times when it always raises a matched exception (the last
\* one is then re-raised), exactly once when it succeeds at once, and exactly
\* once when it raises an exception outside exception_types, which propagates.
C19_RetryInvocations ==
    fn = "retry" =>
        /\ Len(attempts) <= args.tries
        /\ \A i \in 1..(Len(attempts) - 1) : attempts[i] = "AssertionError"
        /\ RetryDone =>
              /\ Len(attempts) >= 1
              /\ (\A i \in 1..Len(attempts) : attempts[i] = "AssertionError") =>
                    /\ Len(attempts) = args.tries
                    /\ result.kind = "raised" /\ result.exc.type = "AssertionError"
              /\ attempts[1] = "returned" => (Len(attempts) = 1 /\ result.kind = "returned")
              /\ attempts[1] = "CommandFailed" =>
                    /\ Len(attempts) = 1
                    /\ result.kind = "raised" /\ result.exc.type = "CommandFailed"
        /\ (~RetryDone /\ Len(attempts) > 0) => Len(attempts) < args.tries

C19_Witness ==
    /\ RetryDone /\ args.f = "validate_pv_delete" /\ args.tries = VALIDATE_PV_DELETE_TRIES
    /\ Len(attempts) = VALIDATE_PV_DELETE_TRIES
    /\ result.kind = "raised" /\ result.exc.type = "AssertionError"

\* C20: on every platform but IBM Power, destroy_cluster invokes the platform
\* teardown (ocp_deployment.destroy) exactly once, after the uninstall
\* attempt, whether uninstall_ocs succeeded or raised; an uninstall failure
\* is logged and never leaves destroy_cluster.
C20_TeardownAfterUninstall ==
    cfg.platform # IBM_POWER_PLATFORM =>
        /\ ~Called("destroy_ocs")
        /\ Count("uninstall_ocs") <= 1 /\ Count("ocp_deployment.destroy") <= 1
        /\ Called("ocp_deployment.destroy") =>
              /\ Called("uninstall_ocs")
              /\ Index("uninstall_ocs") < Index("ocp_deployment.destroy")
        /\ raised.at # "uninstall_ocs"
        /\ Ended =>
              /\ Count("uninstall_ocs") = 1 /\ Count("ocp_deployment.destroy") = 1
              /\ dc_result = "raised" => raised.at = "ocp_deployment.destroy"

C20_Witness ==
    /\ cfg.platform = VSPHERE_PLATFORM /\ Ended
    /\ caught = Exc("CommandFailed", "uninstall_ocs")
    /\ calls = <<"uninstall_ocs", "ocp_deployment.destroy">>
    /\ dc_result = "returned"

----------------------------------------------------------------------------
(* C21 *)

\* a document with the storage request of its device sets left out
WithoutStorage(doc) ==
    [doc EXCEPT !.storageDeviceSets =
        [i \in DOMAIN doc.storageDeviceSets |->
            [doc.storageDeviceSets[i] EXCEPT !.storage = "request"]]]

----------------------------------------------------------------------------
(* C22 *)

\* the components the claim lists under spec.resources; "OCS >= 4.5" is the
\* comparison of line 529, on float(ocs_version)
LoweredComponents(c) ==
    {"mon", "mds", "rgw", "mgr", "noobaa-core", "noobaa-db"}
        \cup (IF VersionFloat(c.ocs_version) >= 450 THEN {"noobaa-endpoint"} ELSE {})

\* a document submitted under allow_lower_instance_requirements off IBM Power
Lowered(i) ==
    /\ i \in DOMAIN documents
    /\ cfg.allow_lower_instance_requirements
    /\ ~IsPower(cfg)

\* C22 as stated: under allow_lower_instance_requirements the device set and
\* every listed component, noobaa-endpoint included, have requests and
\* limits nulled
C22_AllNulled ==
    \A i \in DOMAIN documents : Lowered(i) =>
        /\ documents[i].storageDeviceSets[1].resources = "none_resources"
        /\ DOMAIN documents[i].resources = LoweredComponents(cfg)
        /\ \A r \in LoweredComponents(cfg) :
               documents[i].resources[r] = "none_resources"

\* C22: under allow_lower_instance_requirements (not IBM Power) the device
\* set and mon, mds, rgw, mgr, noobaa-core and noobaa-db have requests and
\* limits nulled for every OCS version; when float(ocs_version) >= 4.5
\* noobaa-endpoint is listed too, with limits and requests of 1 cpu and
\* 500Mi instead of nulled ones; nothing else is listed, so no platform
\* override is applied
C22_NulledExceptEndpoint ==
    \A i \in DOMAIN documents : Lowered(i) =>
        /\ documents[i].storageDeviceSets[1].resources = "none_resources"
        /\ DOMAIN documents[i].resources = LoweredComponents(cfg)
        /\ \A r \in LoweredComponents(cfg) :
               documents[i].resources[r] =
                   IF r = "noobaa-endpoint"
                      THEN "limits 1cpu 500Mi requests 1cpu 500Mi"
                      ELSE "none_resources"

\* a lowered document of OCS >= 4.5 on AWS with local storage, where the
\* overrides of the other branch would have applied
C22_Witness ==
    /\ Lowered(1)
    /\ cfg.local_storage
    /\ cfg.platform = AWS_PLATFORM
    /\ cfg.ocs_version >= 5
    /\ "noobaa-endpoint" \in DOMAIN documents[1].resources

----------------------------------------------------------------------------
(* C23 *)

----------------------------------------------------------------------------
(* C24 *)

\* C24: the file-system validation step never fails the run for a missing
\* or inconsistent file system: when the control plane returns no
\* CephFilesystem item, deploy_ocs only logs and goes on, so no error of
\* reading the first item leaves deploy_ocs
C24_MissingFilesystemOnlyLogged ==
    ~(ocs_exc.type = "IndexError" /\ ocs_exc.at = "oc get CephFileSystem")

----------------------------------------------------------------------------
(* C25 *)

\* the three monitoring validations of lines 757-768
MonitoringValidations ==
    {"validate_pods_are_respinned", "validate_pvc_created_and_bound", "validate_pvc_are_mounted"}

\* the exception types retry matches at lines 758 and 766
MatchedAt(label) ==
    IF label = "validate_pods_are_respinned"
       THEN {"CommandFailed", "ResourceWrongStatusException"}
    ELSE IF label = "validate_pvc_are_mounted" THEN {"CommandFailed", "AssertionError"}
    ELSE {}

\* a validation fails deploy_ocs with CommandFailed only at its third attempt
FailsAtThirdAttempt(labels) ==
    (pc \in labels /\ ocs_result' = "raised" /\ ocs_exc'.type = "CommandFailed")
        => tries_left = 1

\* C25 as stated: each of the three monitoring validations is retried, so a
\* failing command fails deploy_ocs only at the third attempt
C25_EachValidationRetried ==
    [][FailsAtThirdAttempt(MonitoringValidations)]_vars

\* C25: under persistent monitoring the pods-respun and the PVCs-mounted
\* validations are retried up to 3 attempts, an error of a matched type
\* failing deploy_ocs only at the third attempt; the PVCs-created-and-bound
\* validation is attempted once; all three run only after the monitoring
\* config map is created
C25_FirstAndThirdRetried ==
    /\ [][\A l \in MonitoringValidations \ {"validate_pvc_created_and_bound"} :
            (pc = l /\ ocs_result' = "raised" /\ ocs_exc'.type \in MatchedAt(l))
                => tries_left = 1]_vars
    /\ [][pc = "validate_pvc_created_and_bound" => pc' # pc /\ tries_left = 0]_vars
    /\ [](pc \in MonitoringValidations =>
            /\ tries_left \in 0..2
            /\ cfg.monitoring_enabled /\ cfg.persistent_monitoring
            /\ Called("create_configmap_cluster_monitoring_pod(sc)"))

\* the first validation passed and the single attempt of the second one
\* failed deploy_ocs
C25_Witness ==
    /\ pc = "done"
    /\ Called("validate_pods_are_respinned_and_running_state")
    /\ ocs_exc = Exc("CommandFailed", "validate_pvc_created_and_bound_on_monitoring_pods")
    /\ dc_result = "raised"

----------------------------------------------------------------------------
(* C26 *)

\* label_and_taint_nodes has ended, having listed the nodes
LabelAndTaintNodesDone ==
    /\ fn = "label_and_taint_nodes"
    /\ hpc = "done"
    /\ trace[1] = <<"oc get node", "items">>

\* lines 187 and 211: no worker node, or fewer than to label or to taint
TooFewWorkers(a) ==
    \/ Len(a.worker_zones) = 0
    \/ Len(a.worker_zones) < a.ocs_operator_nodes_to_label
    \/ Len(a.worker_zones) < a.ocs_operator_nodes_to_taint

\* the nodes named by the commands of the given kind
NodesOf(command) ==
    {trace[i][2] : i \in {j \in DOMAIN trace : trace[j][1] = command}}

\* a node list names n different worker nodes
NamesExactly(nodes, n) ==
    /\ Len(nodes) = n
    /\ \A i \in DOMAIN nodes : \A j \in DOMAIN nodes : nodes[i] = nodes[j] => i = j
    /\ \A i \in DOMAIN nodes : nodes[i] \in 1..Len(args.worker_zones)

\* C26: with no worker node, or fewer worker nodes than to label or to
\* taint, label_and_taint_nodes raises UnavailableResourceException after
\* the one node listing, with no label or taint command issued; otherwise
\* every label command names exactly to_label nodes and the taint command
\* exactly to_taint nodes, and a normal return has issued them whenever the
\* number is not zero
C26_LabelAndTaint ==
    LabelAndTaintNodesDone =>
        IF TooFewWorkers(args)
           THEN /\ result.kind = "raised"
                /\ result.exc.type = "UnavailableResourceException"
                /\ Len(trace) = 1
           ELSE /\ \A nodes \in NodesOf("oc label nodes") \cup NodesOf("oc label nodes infra") :
                      NamesExactly(nodes, args.ocs_operator_nodes_to_label)
                /\ \A nodes \in NodesOf("oc adm taint nodes") :
                      NamesExactly(nodes, args.ocs_operator_nodes_to_taint)
                /\ result.kind = "raised" => result.exc.type = "CommandFailed"
                /\ result.kind = "returned" =>
                      /\ (args.ocs_operator_nodes_to_label > 0) = (NodesOf("oc label nodes") # {})
                      /\ (args.ocs_operator_nodes_to_taint > 0) = (NodesOf("oc adm taint nodes") # {})

\* more workers than asked for, in two zones: some labelled, fewer tainted
C26_Witness ==
    /\ LabelAndTaintNodesDone
    /\ result.kind = "returned"
    /\ Len(args.worker_zones) > args.ocs_operator_nodes_to_label
    /\ args.ocs_operator_nodes_to_label > args.ocs_operator_nodes_to_taint
    /\ args.ocs_operator_nodes_to_taint > 0
    /\ \E i \in DOMAIN args.worker_zones : args.worker_zones[i] # args.worker_zones[1]

----------------------------------------------------------------------------
(* C27 *)

\* C27: delete_objs_parallel starts one thread per object, returns only
\* after every thread has been joined, and returns True if every object was
\* deleted and False if a delete failed
C27_ResultReportsDeletions ==
    (fn = "delete_objs_parallel" /\ hpc = "done") =>
        /\ Len(threads) = args.obj_list
        /\ \A i \in DOMAIN threads : threads[i].joined /\ threads[i].state # "running"
        /\ result.kind = "returned"
        /\ (result.value = "True") = (\A i \in DOMAIN threads : threads[i].state = "returned")

----------------------------------------------------------------------------
(* C28 *)

\* C28: wait_for_ct_pod_recovery returns True only if the tools pod was
\* recovered: after a "connection timed out" failure it returns True if the
\* wait saw the pod count increase and False if the wait timed out
C28_TrueOnlyIfRecovered ==
    (fn = "wait_for_ct_pod_recovery" /\ hpc = "done" /\ result.kind = "returned") =>
        \A i \in DOMAIN trace :
            trace[i][1] = "wait_for_resource_count_change" => result.value = trace[i][2]

----------------------------------------------------------------------------
(* C29 *)

\* C29: create_pods_parallel and create_multiple_pvc_parallel end only after
\* every state wait has finished, return one object per requested creation,
\* and raise TimeoutExpiredError when a created object did not reach its
\* state within the wait time
C29_TimeoutExpiredWhenNotReached ==
    (fn \in {"create_pods_parallel", "create_multiple_pvc_parallel"} /\ hpc = "done") =>
        /\ AllDone("wait")
        /\ result.kind = "returned" =>
              /\ result.value = Objects(args)
              /\ Cardinality(Tasks("wait")) = Objects(args)
        /\ (\E i \in Tasks("wait") : threads[i].state = "raised") =>
              /\ result.kind = "raised"
              /\ result.exc.type = "TimeoutExpiredError"

----------------------------------------------------------------------------
(* C30 *)

\* C30: when deploy_ocs returns normally, deploy_cluster returns normally
\* and none of the failure-path collections runs, even if the optional
\* collection on success raises
C30_SuccessNotTurnedIntoFailure ==
    (pc = "done" /\ ocs_result = "returned") => dc_result = "returned"

====
